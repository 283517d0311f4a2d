-------------------------- MODULE SequentialProofs --------------------------
(***************************************************************************)
(* Proofs about the parts in which one goroutine works at a time: the hash *)
(* ring of geeCache, the middleware chain of gee, the sessions of geeOrm,  *)
(* the LRU list of geeCache and the router of gee.  They share no          *)
(* variable; each has its own specification.                               *)
(***************************************************************************)
EXTENDS LruCache, ConsistentHash, RouteTrie, MiddlewareChain, Orm, TLAPS, SequenceTheorems,
        FiniteSetTheorems, WellFoundedInduction

------------------------------------------------------------------------------
(* The hash ring, for any peers, nodes, virtual nodes and hash functions:  *)
(* the rings hold what was added to them, peers that added the same nodes  *)
(* agree, and a new node takes keys but moves none between the other nodes.*)

\* The binary search finds the least point, and there is one.
LEMMA LeastIs ==
  ASSUME NEW S, S \subseteq Nat, S # {}
  PROVE  Least(S) \in S /\ \A g \in S : Least(S) <= g
<1> DEFINE R == {ss \in Nat \X Nat : ss[1] < ss[2]}
<1>1. R = OpToRel(<, Nat)
  BY DEF OpToRel
<1>2. IsWellFoundedOn(R, Nat)
  BY <1>1, NatLessThanWellFounded, Zenon
<1> HIDE DEF R
<1>3. PICK h \in S : \A g \in S : <<g, h>> \notin R
  BY <1>2, WFMin
<1>4. ASSUME NEW g \in S
      PROVE  h <= g
  <2>1. g \in Nat /\ h \in Nat
    OBVIOUS
  <2>2. g < h => <<g, h>> \in R
    BY <2>1 DEF R
  <2>3. QED
    BY <1>3, <2>1, <2>2
<1>5. QED
  BY <1>3, <1>4 DEF Least

LEMMA LeastUnique ==
  ASSUME NEW S, S \subseteq Nat, NEW h \in S, \A g \in S : h <= g
  PROVE  Least(S) = h
<1>1. Least(S) \in S /\ \A g \in S : Least(S) <= g
  BY LeastIs
<1>2. h <= Least(S) /\ Least(S) <= h /\ h \in Nat /\ Least(S) \in Nat
  BY <1>1
<1> HIDE DEF Least
<1>3. QED
  BY <1>2

\* The search of Get finds a point of the ring: the first at or above the
\* hash, or, when there is none, the first of all.
LEMMA ClockwiseIs ==
  ASSUME NEW S, S \subseteq Nat, S # {}, NEW h \in Nat
  PROVE  /\ Clockwise(S, h) \in S
         /\ \A g \in S : g >= h =>
                Clockwise(S, h) >= h /\ Clockwise(S, h) <= g
         /\ (\A g \in S : ~(g >= h)) => \A g \in S : Clockwise(S, h) <= g
<1> DEFINE above == {g \in S : g >= h}
<1>1. CASE above = {}
  <2>1. Clockwise(S, h) = Least(S)
    BY <1>1 DEF Clockwise
  <2>2. QED
    BY <1>1, <2>1, LeastIs
<1>2. CASE above # {}
  <2>1. Clockwise(S, h) = Least(above)
    BY <1>2 DEF Clockwise
  <2>2. Least(above) \in above /\ \A g \in above : Least(above) <= g
    BY <1>2, LeastIs
  <2>3. QED
    BY <1>2, <2>1, <2>2
<1>3. QED
  BY <1>1, <1>2

\* A point that Get finds in a larger ring it finds in the ring.
LEMMA ClockwiseShrinks ==
  ASSUME NEW T, T \subseteq Nat, NEW S, S \subseteq T, NEW h \in Nat,
         Clockwise(T, h) \in S
  PROVE  Clockwise(S, h) = Clockwise(T, h)
<1> DEFINE c == Clockwise(T, h)
           d == Clockwise(S, h)
<1>1. /\ c \in T
      /\ \A g \in T : g >= h => c >= h /\ c <= g
      /\ (\A g \in T : ~(g >= h)) => \A g \in T : c <= g
  BY ClockwiseIs
<1>2. /\ d \in S
      /\ \A g \in S : g >= h => d >= h /\ d <= g
      /\ (\A g \in S : ~(g >= h)) => \A g \in S : d <= g
  BY ClockwiseIs
<1>3. c \in S /\ c \in Nat /\ d \in T /\ d \in Nat
  BY <1>1, <1>2
<1> HIDE DEF c, d
<1>4. CASE c >= h
  <2>1. d >= h /\ d <= c
    BY <1>2, <1>3, <1>4
  <2>2. c <= d
    BY <1>1, <1>3, <2>1
  <2>3. QED
    BY <1>3, <2>1, <2>2 DEF c, d
<1>5. CASE ~(c >= h)
  <2>1. \A g \in T : ~(g >= h)
    BY <1>1, <1>5
  <2>2. c <= d /\ d <= c
    BY <1>1, <1>2, <1>3, <2>1
  <2>3. QED
    BY <1>3, <2>2 DEF c, d
<1>6. QED
  BY <1>4, <1>5

------------------------------------------------------------------------------
LEMMA MineInRange ==
  ASSUME RingTypeOK, NEW new \in Nodes
  PROVE  Mine(new) \subseteq Range32
  BY DEF RingTypeOK, Mine

LEMMA AddType ==
  ASSUME RingTypeOK, NEW p \in Peers, NEW new \in Nodes, Add(p, new)
  PROVE  RingTypeOK'
<1>1. points' \in [Peers -> SUBSET Range32]
  BY MineInRange DEF RingTypeOK, Add, Place
<1>2. hashMap' \in [Peers -> [Range32 -> Nodes \cup {NoNode}]]
  BY DEF RingTypeOK, Add
<1>3. QED
  BY <1>1, <1>2 DEF RingTypeOK, Add, hashes

LEMMA AddInv ==
  ASSUME RingInv, NEW p \in Peers, NEW new \in Nodes, Add(p, new)
  PROVE  RingInv'
<1>1. RingTypeOK /\ RingTypeOK'
  BY AddType DEF RingInv
<1>2. pointOf' = pointOf
  BY DEF Add, hashes
<1>3. ASSUME NEW q \in Peers
      PROVE  /\ \A h \in Range32 :
                    h \in points'[q] <=> \E m \in added'[q] : h \in Mine(m)
             /\ \A h \in points'[q] : /\ hashMap'[q][h] \in added'[q]
                                      /\ h \in Mine(hashMap'[q][h])
  <2>1. CASE q # p
    BY <2>1 DEF RingInv, RingTypeOK, Add
  <2>2. CASE q = p
    <3>1. added'[p] = added[p] \cup {new} /\ points'[p] = points[p] \cup Mine(new)
      BY <1>1 DEF RingTypeOK, Add, Place
    <3>3. \A h \in Range32 :
              h \in points'[p] <=> \E m \in added'[p] : h \in Mine(m)
      BY <3>1 DEF RingInv
    <3>4. ASSUME NEW h \in points'[p]
          PROVE  hashMap'[p][h] \in added'[p] /\ h \in Mine(hashMap'[p][h])
      <4>1. h \in Range32
        BY <1>1 DEF RingTypeOK
      <4>2. hashMap'[p][h] = IF h \in Mine(new) THEN new ELSE hashMap[p][h]
        BY <1>1, <4>1 DEF RingTypeOK, Add
      <4>3. CASE h \in Mine(new)
        BY <3>1, <4>2, <4>3
      <4>4. CASE h \notin Mine(new)
        BY <3>1, <4>2, <4>4 DEF RingInv
      <4>5. QED
        BY <4>3, <4>4
    <3>5. QED
      BY <2>2, <3>3, <3>4
  <2>3. QED
    BY <2>1, <2>2
<1>4. \A m : Mine(m)' = Mine(m)
  BY <1>2 DEF Mine
<1>5. QED
  BY <1>1, <1>3, <1>4 DEF RingInv

\* What the rings hold is what was added to them.
THEOREM RingInvariant == RingSpec => []RingInv
<1>1. RingInit => RingInv
  BY DEF RingInit, RingInv, RingTypeOK
<1>2. RingInv /\ [RingNext]_ringVars => RingInv'
  <2> SUFFICES ASSUME RingInv, [RingNext]_ringVars PROVE RingInv'
    OBVIOUS
  <2>1. CASE RingNext
    BY <2>1, AddInv DEF RingNext
  <2>2. CASE UNCHANGED ringVars
    <3>1. /\ pointOf' = pointOf /\ hashOf' = hashOf /\ points' = points
          /\ hashMap' = hashMap /\ added' = added
      BY <2>2 DEF ringVars
    <3>2. RingTypeOK'
      BY <3>1 DEF RingInv, RingTypeOK
    <3>3. \A m : Mine(m)' = Mine(m)
      BY <3>1 DEF Mine
    <3>4. QED
      BY <3>1, <3>2, <3>3 DEF RingInv
  <2>3. QED
    BY <2>1, <2>2
<1>3. QED
  BY <1>1, <1>2, PTL DEF RingSpec

\* Peers that added the same nodes, in any order, send a key to the same one,
\* for every hash function under which no two nodes share a point.
THEOREM PeersAgreeHolds == RingSpec => []PeersAgree
<1>1. RingInv => PeersAgree
  <2> SUFFICES ASSUME RingInv, NoCollision,
                      NEW p \in Peers, NEW q \in Peers, NEW k \in RingKeys,
                      added[p] = added[q]
               PROVE  Get(p, k) = Get(q, k)
    BY DEF PeersAgree
  <2>1. points[p] = points[q]
    <3>1. points[p] \subseteq Range32 /\ points[q] \subseteq Range32
      BY DEF RingInv, RingTypeOK
    <3>2. QED
      BY <3>1 DEF RingInv
  <2>2. CASE points[p] = {}
    BY <2>1, <2>2 DEF Get
  <2>3. CASE points[p] # {}
    <3> DEFINE c == Clockwise(points[p], hashOf[k])
    <3>1. points[p] \subseteq Nat /\ hashOf[k] \in Nat
      BY RingAssumption DEF RingInv, RingTypeOK
    <3>2. c \in points[p]
      BY <2>3, <3>1, ClockwiseIs
    <3>3. /\ hashMap[p][c] \in Nodes /\ c \in Mine(hashMap[p][c])
          /\ hashMap[q][c] \in Nodes /\ c \in Mine(hashMap[q][c])
      BY <2>1, <3>2 DEF RingInv, RingTypeOK
    <3>4. hashMap[p][c] = hashMap[q][c]
      BY <3>3 DEF NoCollision
    <3>5. QED
      BY <2>1, <2>3, <3>4 DEF Get
  <2>4. QED
    BY <2>2, <2>3
<1>2. QED
  BY <1>1, RingInvariant, PTL

\* A node that is added takes keys for itself and moves no other.
THEOREM OnlyToNewNodeHolds == RingSpec => OnlyToNewNode
<1> DEFINE Takes == \A p \in Peers, new \in Nodes, k \in RingKeys :
                        Add(p, new) => Get(p, k)' \in {Get(p, k), new}
<1>1. RingInv => Takes
  <2> SUFFICES ASSUME RingTypeOK, NEW p \in Peers, NEW new \in Nodes,
                      NEW k \in RingKeys, Add(p, new)
               PROVE  Get(p, k)' \in {Get(p, k), new}
    BY DEF RingInv
  <2> DEFINE S == points[p]
             T == points'[p]
             h == hashOf[k]
             c == Clockwise(T, h)
  <2>1. T = S \cup Mine(new) /\ hashOf' = hashOf
    BY DEF RingTypeOK, Add, Place, hashes
  <2>2. T \subseteq Range32 /\ T \subseteq Nat /\ S \subseteq T /\ h \in Nat
    BY <2>1, AddType, RingAssumption DEF RingTypeOK
  <2>3. Get(p, k)' = IF T = {} THEN NoNode ELSE hashMap'[p][c]
    BY <2>1 DEF Get, Clockwise, Least
  <2>4. CASE T = {}
    BY <2>1, <2>3, <2>4 DEF Get
  <2>5. CASE T # {}
    <3>1. c \in T
      BY <2>2, <2>5, ClockwiseIs
    <3>2. hashMap'[p][c] = IF c \in Mine(new) THEN new ELSE hashMap[p][c]
      BY <2>2, <3>1 DEF RingTypeOK, Add
    <3>3. CASE c \in Mine(new)
      BY <2>3, <2>5, <3>2, <3>3
    <3>4. CASE c \notin Mine(new)
      <4>1. c \in S
        BY <2>1, <3>1, <3>4
      <4>2. Clockwise(S, h) = c
        BY <2>2, <4>1, ClockwiseShrinks
      <4>3. Get(p, k) = hashMap[p][c]
        BY <4>1, <4>2 DEF Get
      <4>4. QED
        BY <2>3, <2>5, <3>2, <3>4, <4>3
    <3>5. QED
      BY <3>3, <3>4
  <2>6. QED
    BY <2>4, <2>5
<1>2. RingInv /\ [RingNext]_ringVars => [Takes]_ringVars
  BY <1>1
<1>3. QED
  BY <1>2, RingInvariant, PTL DEF RingSpec, OnlyToNewNode

------------------------------------------------------------------------------
(* The middleware chain: however long it is, however its handlers nest     *)
(* their calls of Next, and whatever panics, they start in order, once,    *)
(* and all of them unless the panic left the chain.                        *)

\* Loops of Next and handlers take turns on the stack, from a loop upwards.
Alternates ==
    /\ stack # <<>> => stack[1] = Loop
    /\ \A k \in 1..Len(stack) - 1 : stack[k] = Loop <=> stack[k + 1] # Loop

\* How far the handlers are, when x of them should have started.
Reached(x) == /\ x <= n => Len(started) = x
              /\ x > n => Len(started) = n

InOrder == \A k \in 1..Len(started) : started[k] = k

\* The index is that of the handler to start next when a loop is on top, and
\* that of the one that started last, or more, when a handler is.
Progress ==
    /\ n = 0 => index = -1 /\ stack = <<>> /\ started = <<>>
    /\ n > 0 => index \in Nat /\ Len(started) <= n
    /\ stack # <<>> /\ Top = Loop => Reached(index)
    /\ stack # <<>> /\ Top # Loop => Reached(index + 1)
    /\ n > 0 /\ stack = <<>> /\ ~escaped => Len(started) = n

ChainInv == ChainTypeOK /\ Alternates /\ InOrder /\ Progress

LEMMA Prefix ==
  ASSUME NEW S, NEW s \in Seq(S), NEW m \in 0..Len(s)
  PROVE  /\ SubSeq(s, 1, m) \in Seq(S)
         /\ Len(SubSeq(s, 1, m)) = m
         /\ \A k \in 1..m : SubSeq(s, 1, m)[k] = s[k]
  BY SubSeqProperties

LEMMA Longer ==
  ASSUME NEW S, NEW s \in Seq(S), NEW x \in S
  PROVE  /\ Append(s, x) \in Seq(S)
         /\ Len(Append(s, x)) = Len(s) + 1
         /\ \A k \in 1..Len(s) : Append(s, x)[k] = s[k]
         /\ Append(s, x)[Len(s) + 1] = x
  BY AppendProperties

LEMMA InitChain == ChainInit => ChainInv
<1> SUFFICES ASSUME ChainInit PROVE ChainInv
  OBVIOUS
<1> USE ChainAssumption DEF ChainInit
<1>1. ChainTypeOK
  <2>1. stack \in Seq(Handlers \cup {Loop}) /\ started \in Seq(Handlers)
    OBVIOUS
  <2>2. nexts \in [Handlers -> Nat]
    OBVIOUS
  <2>3. n \in 0..MaxHandlers /\ index \in Int
    OBVIOUS
  <2>4. escaped \in BOOLEAN
    BY Zenon
  <2>5. QED
    BY <2>1, <2>2, <2>3, <2>4 DEF ChainTypeOK
<1>2. QED
  BY <1>1 DEF ChainInv, Alternates, InOrder, Progress

\* The last of some places of a sequence exists: the unwinding ends there.
LEMMA LastExists ==
  ASSUME NEW b \in Nat, NEW S, S \subseteq 1..b, S # {}
  PROVE  \E k \in S : \A j \in S : j <= k
<1> DEFINE R == {ss \in Nat \X Nat : ss[1] < ss[2]}
           T == {m \in Nat : \E k \in S : m = b - k}
<1>1. R = OpToRel(<, Nat)
  BY DEF OpToRel
<1>2. IsWellFoundedOn(R, Nat)
  BY <1>1, NatLessThanWellFounded, Zenon
<1>3. T \subseteq Nat /\ T # {} /\ \A k \in S : b - k \in T
  <2>1. \A k \in S : b - k \in T
    OBVIOUS
  <2>2. QED
    BY <2>1
<1> HIDE DEF R
<1>4. PICK m \in T : \A g \in T : <<g, m>> \notin R
  BY <1>2, <1>3, WFMin
<1>5. PICK k \in S : m = b - k
  BY <1>4
<1>6. ASSUME NEW j \in S
      PROVE  j <= k
  <2>1. b - j \in T /\ b - j \in Nat /\ b - k \in Nat
    BY <1>3, <1>4, <1>5
  <2>2. b - j < b - k => <<b - j, m>> \in R
    BY <1>5, <2>1 DEF R
  <2>3. ~(b - j < b - k)
    BY <1>4, <2>1, <2>2
  <2>4. QED
    BY <2>3
<1>7. QED
  BY <1>6

\* A call on top of the stack: a loop on a handler or on nothing, or a
\* handler on a loop.
LEMMA PushFacts ==
  ASSUME ChainTypeOK, Alternates, NEW call \in Handlers \cup {Loop}, Push(call),
         stack = <<>> => call = Loop,
         stack # <<>> => (Top = Loop <=> call # Loop)
  PROVE  /\ stack' \in Seq(Handlers \cup {Loop}) /\ stack' # <<>>
         /\ Top' = call /\ Alternates'
<1>1. /\ stack' \in Seq(Handlers \cup {Loop})
      /\ Len(stack') = Len(stack) + 1
      /\ \A k \in 1..Len(stack) : stack'[k] = stack[k]
      /\ stack'[Len(stack) + 1] = call
  BY Longer DEF ChainTypeOK, Push
<1>2. Len(stack) \in Nat /\ (stack = <<>> <=> Len(stack) = 0)
  BY DEF ChainTypeOK
<1>3. stack' # <<>> /\ Top' = call
  BY <1>1, <1>2 DEF Top
<1>4. stack'[1] = Loop
  BY <1>1, <1>2 DEF Alternates
<1>5. ASSUME NEW k \in 1..Len(stack') - 1
      PROVE  stack'[k] = Loop <=> stack'[k + 1] # Loop
  <2>1. CASE k = Len(stack)
    BY <1>1, <1>2, <2>1 DEF Top
  <2>2. CASE k # Len(stack)
    <3>1. k \in 1..Len(stack) - 1 /\ k + 1 \in 1..Len(stack)
      BY <1>1, <1>2, <2>2
    <3>2. QED
      BY <1>1, <3>1 DEF Alternates
  <2>3. QED
    BY <2>1, <2>2
<1>6. QED
  BY <1>1, <1>3, <1>4, <1>5 DEF Alternates

\* What is left of the stack when it is unwound to its first m calls.
LEMMA UnwindFacts ==
  ASSUME ChainTypeOK, Alternates, NEW m \in 0..Len(stack),
         stack' = SubSeq(stack, 1, m)
  PROVE  /\ stack' \in Seq(Handlers \cup {Loop})
         /\ stack' = <<>> <=> m = 0
         /\ m > 0 => Top' = stack[m]
         /\ Alternates'
<1>1. /\ stack' \in Seq(Handlers \cup {Loop}) /\ Len(stack') = m
      /\ \A k \in 1..m : stack'[k] = stack[k]
  BY Prefix DEF ChainTypeOK
<1>2. Len(stack) \in Nat /\ (stack = <<>> <=> Len(stack) = 0)
  BY DEF ChainTypeOK
<1>3. stack' = <<>> <=> m = 0
  BY <1>1
<1>4. m > 0 => Top' = stack[m]
  BY <1>1 DEF Top
<1>5. stack' # <<>> => stack'[1] = Loop
  BY <1>1, <1>2, <1>3 DEF Alternates
<1>6. \A k \in 1..Len(stack') - 1 : stack'[k] = Loop <=> stack'[k + 1] # Loop
  BY <1>1, <1>2 DEF Alternates
<1>7. QED
  BY <1>1, <1>3, <1>4, <1>5, <1>6 DEF Alternates

LEMMA ServeStep ==
  ASSUME ChainInv, NEW handlers \in 1..MaxHandlers,
         NEW recovers \in SUBSET Handlers, Serve(handlers, recovers)
  PROVE  ChainInv'
<1>1. /\ stack = <<>> /\ started = <<>> /\ index = -1
      /\ n' = handlers /\ recovery' = recovers /\ index' = 0 /\ Push(Loop)
      /\ nexts' = nexts /\ started' = started /\ escaped' = escaped
  BY DEF ChainInv, Progress, Serve, Enter
<1>2. /\ stack' \in Seq(Handlers \cup {Loop}) /\ stack' # <<>>
      /\ Top' = Loop /\ Alternates'
  BY <1>1, PushFacts DEF ChainInv
<1>3. ChainTypeOK'
  BY <1>1, <1>2, ChainAssumption DEF ChainInv, ChainTypeOK
<1>4. Progress'
  BY <1>1, <1>2, ChainAssumption DEF Progress, Reached
<1>5. QED
  BY <1>1, <1>2, <1>3, <1>4 DEF ChainInv, InOrder

LEMMA CallHandlerStep ==
  ASSUME ChainInv, CallHandler
  PROVE  ChainInv'
<1> USE ChainAssumption
<1>1. /\ stack # <<>> /\ Top = Loop /\ index < n /\ Push(index + 1)
      /\ started' = Append(started, index + 1)
      /\ n' = n /\ recovery' = recovery /\ index' = index /\ nexts' = nexts
      /\ escaped' = escaped
  BY DEF CallHandler
<1>2. n \in 1..MaxHandlers /\ index \in Nat /\ Len(started) = index
  BY <1>1 DEF ChainInv, ChainTypeOK, Progress, Reached
<1>3. index + 1 \in Handlers /\ index + 1 # Loop
  BY <1>1, <1>2 DEF Handlers, Loop
<1>4. /\ stack' \in Seq(Handlers \cup {Loop}) /\ stack' # <<>>
      /\ Top' = index + 1 /\ Alternates'
  BY <1>1, <1>3, PushFacts DEF ChainInv
<1>5. /\ started' \in Seq(Handlers) /\ Len(started') = index + 1
      /\ \A k \in 1..index : started'[k] = started[k]
      /\ started'[index + 1] = index + 1
  BY <1>1, <1>2, <1>3, Longer DEF ChainInv, ChainTypeOK
<1>6. ChainTypeOK'
  BY <1>1, <1>4, <1>5 DEF ChainInv, ChainTypeOK
<1>7. InOrder'
  BY <1>2, <1>5 DEF ChainInv, InOrder
<1>8. Progress'
  BY <1>1, <1>2, <1>3, <1>4, <1>5 DEF Progress, Reached
<1>9. QED
  BY <1>4, <1>6, <1>7, <1>8 DEF ChainInv

LEMMA EndLoopStep ==
  ASSUME ChainInv, EndLoop
  PROVE  ChainInv'
<1>1. /\ stack # <<>> /\ Top = Loop /\ index >= n
      /\ stack' = SubSeq(stack, 1, Len(stack) - 1)
      /\ n' = n /\ recovery' = recovery /\ index' = index /\ nexts' = nexts
      /\ started' = started /\ escaped' = escaped
  BY DEF EndLoop, Pop
<1>2. Len(stack) \in Nat /\ Len(stack) - 1 \in 0..Len(stack)
  BY <1>1 DEF ChainInv, ChainTypeOK
<1>3. /\ stack' \in Seq(Handlers \cup {Loop}) /\ Alternates'
      /\ stack' # <<>> => Top' = stack[Len(stack) - 1]
                          /\ Len(stack) - 1 \in 1..Len(stack) - 1
  BY <1>1, <1>2, UnwindFacts DEF ChainInv
<1>4. stack' # <<>> => Top' # Loop
  BY <1>1, <1>2, <1>3 DEF ChainInv, Alternates, Top
<1>5. n \in Nat \ {0} /\ index \in Nat /\ Len(started) = n
  BY <1>1 DEF ChainInv, ChainTypeOK, Progress, Reached
<1>6. ChainTypeOK'
  BY <1>1, <1>3 DEF ChainInv, ChainTypeOK
<1>7. Progress'
  BY <1>1, <1>4, <1>5 DEF Progress, Reached
<1>8. QED
  BY <1>1, <1>3, <1>6, <1>7 DEF ChainInv, InOrder

LEMMA CallNextStep ==
  ASSUME ChainInv, CallNext
  PROVE  ChainInv'
<1>1. /\ stack # <<>> /\ Top # Loop /\ Push(Loop) /\ index' = index + 1
      /\ nexts' = [nexts EXCEPT ![Top] = nexts[Top] + 1]
      /\ n' = n /\ recovery' = recovery /\ started' = started
      /\ escaped' = escaped
  BY DEF CallNext, Enter
<1>2. /\ stack' \in Seq(Handlers \cup {Loop}) /\ stack' # <<>>
      /\ Top' = Loop /\ Alternates'
  BY <1>1, PushFacts DEF ChainInv
<1>3. /\ n \in Nat \ {0} /\ index \in Nat /\ Len(started) <= n
      /\ Reached(index + 1)
  BY <1>1 DEF ChainInv, ChainTypeOK, Progress
<1>4. nexts' \in [Handlers -> Nat]
  <2>1. nexts \in [Handlers -> Nat]
    BY DEF ChainInv, ChainTypeOK
  <2>2. Top \in Handlers => nexts[Top] + 1 \in Nat
    BY <2>1
  <2> HIDE DEF Top
  <2>3. QED
    BY <1>1, <2>1, <2>2
<1>5. ChainTypeOK'
  BY <1>1, <1>2, <1>3, <1>4 DEF ChainInv, ChainTypeOK
<1>6. Progress'
  BY <1>1, <1>2, <1>3 DEF Progress, Reached
<1>7. QED
  BY <1>1, <1>2, <1>5, <1>6 DEF ChainInv, InOrder

\* A handler ends, by itself or with what is above it: the loop that called
\* it goes on.
LEMMA ResumeStep ==
  ASSUME ChainInv, Top # Loop, NEW k \in 1..Len(stack), stack[k] # Loop,
         stack' = SubSeq(stack, 1, k - 1), index' = Advance,
         UNCHANGED <<n, recovery, nexts, started, escaped>>
  PROVE  ChainInv'
<1>1. stack # <<>> /\ Len(stack) \in Nat /\ k - 1 \in 0..Len(stack)
  BY DEF ChainInv, ChainTypeOK
<1>2. /\ stack' \in Seq(Handlers \cup {Loop}) /\ Alternates'
      /\ stack' = <<>> <=> k = 1
      /\ k > 1 => Top' = stack[k - 1]
  BY <1>1, UnwindFacts DEF ChainInv
<1>3. k > 1
  BY <1>1 DEF ChainInv, Alternates
<1>4. stack' # <<>> /\ Top' = Loop
  <2>1. k - 1 \in 1..Len(stack) - 1 /\ (k - 1) + 1 = k
    BY <1>1, <1>3
  <2>2. stack[k - 1] = Loop <=> stack[k] # Loop
    BY <2>1 DEF ChainInv, Alternates
  <2>3. QED
    BY <1>2, <1>3, <2>2
<1>5. /\ n \in Nat \ {0} /\ index \in Nat /\ Len(started) <= n
      /\ Reached(index + 1)
  BY <1>1 DEF ChainInv, ChainTypeOK, Progress
<1>6. index' = index + 1
  BY DEF Advance
<1>7. ChainTypeOK'
  BY <1>2, <1>5, <1>6 DEF ChainInv, ChainTypeOK
<1>8. Progress'
  BY <1>4, <1>5, <1>6 DEF Progress, Reached
<1>9. QED
  BY <1>2, <1>7, <1>8 DEF ChainInv, InOrder

LEMMA ReturnStep ==
  ASSUME ChainInv, Return
  PROVE  ChainInv'
<1>1. stack # <<>> /\ Top # Loop /\ Len(stack) \in 1..Len(stack)
  BY DEF Return, ChainInv, ChainTypeOK
<1>2. QED
  BY <1>1, ResumeStep DEF Return, Pop, Top

LEMMA PanicStep ==
  ASSUME ChainInv, Panic
  PROVE  ChainInv'
<1>1. CASE Recovers = {}
  <2>1. /\ stack' = <<>> /\ escaped' = TRUE /\ index' = index /\ n' = n
        /\ recovery' = recovery /\ nexts' = nexts /\ started' = started
    BY <1>1 DEF Panic
  <2>2. n \in Nat \ {0}
    BY DEF Panic, ChainInv, ChainTypeOK, Progress
  <2>3. ChainTypeOK' /\ Alternates'
    BY <2>1 DEF ChainInv, ChainTypeOK, Alternates
  <2>4. Progress'
    BY <2>1, <2>2 DEF ChainInv, Progress
  <2>5. QED
    BY <2>1, <2>3, <2>4 DEF ChainInv, InOrder
<1>2. CASE Recovers # {}
  <2> DEFINE last == CHOOSE k \in Recovers : \A j \in Recovers : j <= k
  <2>1. last \in Recovers
    <3>1. Recovers \subseteq 1..Len(stack) /\ Len(stack) \in Nat
      BY DEF Recovers, ChainInv, ChainTypeOK
    <3>2. \E k \in Recovers : \A j \in Recovers : j <= k
      BY <1>2, <3>1, LastExists
    <3>3. QED
      BY <3>2
  <2>2. /\ last \in 1..Len(stack) /\ stack[last] # Loop
    BY <2>1 DEF Recovers, ChainInv, ChainTypeOK, Handlers, Loop
  <2>3. QED
    BY <1>2, <2>2, ResumeStep DEF Panic
<1>3. QED
  BY <1>1, <1>2

LEMMA NextChain == ChainInv /\ [ChainNext]_chainVars => ChainInv'
<1> SUFFICES ASSUME ChainInv, [ChainNext]_chainVars PROVE ChainInv'
  OBVIOUS
<1>1. ASSUME NEW handlers \in 1..MaxHandlers, NEW recovers \in SUBSET Handlers,
             Serve(handlers, recovers \cap 1..(handlers - 1))
      PROVE  ChainInv'
  BY <1>1, ServeStep
<1>2. CASE UNCHANGED chainVars
  BY <1>2 DEF chainVars, ChainInv, ChainTypeOK, Alternates, InOrder, Progress,
     Reached, Top
<1>3. QED
  BY <1>1, <1>2, CallHandlerStep, EndLoopStep, CallNextStep, ReturnStep,
     PanicStep DEF ChainNext

------------------------------------------------------------------------------
\* The inductive invariant, the types among it.
THEOREM ChainInvariant == ChainSpec => []ChainInv
  BY InitChain, NextChain, PTL DEF ChainSpec

\* Every handler of a chain starts once, in order, and none is left out.
THEOREM EachOnceHolds == ChainSpec => []EachOnce
<1>1. ChainInv => EachOnce
  BY DEF ChainInv, ChainTypeOK, InOrder, Progress, EachOnce
<1>2. QED
  BY <1>1, ChainInvariant, PTL

------------------------------------------------------------------------------
(* The sessions of geeOrm, for any columns, rows and parts.                *)

\* What has been set and not executed is what the present chain has set.
ClauseInv == \A s \in Sessions : ~panicked[s] =>
    \A k \in Kinds : clause[s][k] = IF k \in wants[s] THEN "own" ELSE "unset"

\* A transaction is open while its function runs, and the lock is its own.
TxInv == /\ tx["user"] = "none"
         /\ pc # "idle" <=> tx["tx"] = "open"
         /\ pc = "idle" => ~locked

Sound(d) == d.tmp = NoTable /\ (d.cols = NoTable => d.rows = {})

\* How far the transaction is from what it has found: a program may be
\* anywhere, a Migrate is on its way to the new columns.
WorkInv ==
    /\ Sound(committed)
    /\ locked /\ pc \in {"func", "commit"} => Sound(work)
    /\ pc = "has" => ~locked
    /\ pc = "create" /\ locked => work = committed
    /\ pc = "select" => locked /\ work = committed
    /\ pc = "add" =>
          /\ locked
          /\ work = [committed EXCEPT !.cols = work.cols]
          /\ committed.cols \subseteq work.cols
          /\ work.cols \cup todo = committed.cols \cup Fields
          /\ dropped <=> committed.cols \ Fields # {}
    /\ pc = "migrated" => locked /\ work = Migrated(committed)

OrmInv == OrmTypeOK /\ ClauseInv /\ TxInv /\ WorkInv

SessionType ==
    /\ clause \in [Sessions -> [Kinds -> {"unset", "own", "stale"}]]
    /\ refTable \in [Sessions -> BOOLEAN]
    /\ wants \in [Sessions -> SUBSET Kinds]
    /\ panicked \in [Sessions -> BOOLEAN]

SoundTable == {d \in Table : Sound(d)}

LEMMA InitOrm == OrmInit => OrmInv
<1> SUFFICES ASSUME OrmInit PROVE OrmInv
  OBVIOUS
<1>1. committed \in Table /\ Sound(committed) /\ work = committed
  BY DEF OrmInit, Table, Sound, NoTable
<1>2. OrmTypeOK
  BY <1>1 DEF OrmInit, OrmTypeOK, Unset
<1>3. ClauseInv
  BY DEF OrmInit, ClauseInv, Unset
<1>4. TxInv /\ WorkInv
  BY <1>1 DEF OrmInit, TxInv, WorkInv, Sessions
<1> QED
  BY <1>2, <1>3, <1>4 DEF OrmInv

\* A session that executes forgets all parts, whatever becomes of it (Clear).
LEMMA ClearStep ==
    ASSUME OrmInv, NEW s \in Sessions, NEW ok, Clear(s, ok),
           refTable' \in [Sessions -> BOOLEAN]
    PROVE  SessionType' /\ ClauseInv'
<1>1. /\ clause' = [clause EXCEPT ![s] = Unset]
      /\ wants' = [wants EXCEPT ![s] = {}]
      /\ panicked' = [panicked EXCEPT ![s] = FALSE]
  BY DEF Clear, Cleared
<1>2. SessionType'
  BY <1>1 DEF OrmInv, OrmTypeOK, SessionType, Unset
<1>3. ClauseInv'
  BY <1>1 DEF OrmInv, OrmTypeOK, ClauseInv, Unset
<1> QED
  BY <1>2, <1>3

\* The session of the transaction writes what only it sees, the other one the
\* database itself, and nothing else than was there while it is locked.
LEMMA ExecutesStep ==
    ASSUME OrmInv, NEW s \in Sessions, NEW d, Executes(s, d)
    PROVE  \/ s = "tx" /\ pc # "idle" /\ work' = d /\ locked' /\ committed' = committed
           \/ /\ s = "user" \/ pc = "idle"
              /\ committed' = d /\ (locked => d = committed)
              /\ work' = work /\ locked' = locked
  BY DEF OrmInv, TxInv, OrmTypeOK, Executes, DB, Sessions

\* What a session sees is a table or none, with rows only in a table.
LEMMA SeenSound ==
    ASSUME OrmInv, NEW s \in Sessions, Active(s) PROVE Seen(s) \in SoundTable
  BY DEF OrmInv, OrmTypeOK, TxInv, WorkInv, Active, Seen, DB, Sessions, SoundTable

\* A statement of a program takes a session from one such state to another.
LEMMA EffectsSound ==
    ASSUME NEW d \in SoundTable, NEW sql
    PROVE  /\ Inserted(d) \subseteq SoundTable /\ Deleted(d, sql) \subseteq SoundTable
           /\ Created(d) \subseteq SoundTable /\ Gone(d) \in SoundTable
<1>0. /\ d \in Table /\ d.tmp = NoTable /\ (d.cols = NoTable => d.rows = {})
      /\ d.rows \subseteq Rows /\ Fields \subseteq Cols /\ Fields # {}
  BY OrmAssumption DEF SoundTable, Sound, Table
<1>1. Inserted(d) \subseteq SoundTable
  <2> SUFFICES ASSUME d.cols # NoTable, NEW r \in Rows
               PROVE  [d EXCEPT !.rows = @ \cup {r}] \in SoundTable
    BY DEF Inserted
  <2> QED
    BY <1>0 DEF SoundTable, Sound, Table
<1>2. Deleted(d, sql) \subseteq SoundTable
  <2>1. \A kept \in SUBSET d.rows : [d EXCEPT !.rows = kept] \in SoundTable
    BY <1>0 DEF SoundTable, Sound, Table
  <2>2. {} \in SUBSET d.rows
    OBVIOUS
  <2>3. Deleted(d, sql) \subseteq {[d EXCEPT !.rows = kept] : kept \in SUBSET d.rows}
    BY <2>2 DEF Deleted
  <2> QED
    BY <2>1, <2>3
<1>3. Created(d) \subseteq SoundTable
  BY <1>0 DEF Created, SoundTable, Sound, Table, NoTable
<1>4. Gone(d) \in SoundTable
  BY <1>0 DEF Gone, SoundTable, Sound, Table, NoTable
<1> QED
  BY <1>1, <1>2, <1>3, <1>4

\* What a program does with a session of its own, or in its function.
LEMMA ProgramStep ==
    ASSUME OrmInv, NEW s \in Sessions, Active(s), NEW ok \in BOOLEAN,
           NEW effects, effects \subseteq SoundTable, Exec(s, effects, ok),
           refTable' \in [Sessions -> BOOLEAN], UNCHANGED <<tx, engineVars>>
    PROVE  OrmInv' /\ (committed' # committed => ~locked /\ s = "user")
<1>0. OrmTypeOK /\ TxInv /\ WorkInv
  BY DEF OrmInv
<1>1. SessionType' /\ ClauseInv'
  BY ClearStep DEF Exec
<1>2. UNCHANGED dbVars \/ \E d \in SoundTable : Executes(s, d)
  BY DEF Exec
<1>3. CASE UNCHANGED dbVars
  <2>1. OrmTypeOK' /\ TxInv' /\ WorkInv'
    BY <1>0, <1>1, <1>3 DEF dbVars, engineVars, OrmTypeOK, SessionType, TxInv,
       WorkInv, Sound, Migrated
  <2> QED
    BY <1>1, <1>3, <2>1 DEF OrmInv, dbVars
<1>4. ASSUME NEW d \in SoundTable, Executes(s, d)
      PROVE  OrmInv' /\ (committed' # committed => ~locked /\ s = "user")
  <2>0. d \in Table /\ Sound(d)
    BY DEF SoundTable
  <2>1. CASE s = "tx" /\ pc # "idle" /\ work' = d /\ locked' /\ committed' = committed
    <3>1. pc = "func"
      BY <2>1 DEF Active
    <3>2. locked' = TRUE
      BY <1>4, <2>1, <1>0 DEF Executes, DB, TxInv
    <3>3. OrmTypeOK'
      BY <1>0, <1>1, <2>0, <2>1, <3>2 DEF engineVars, OrmTypeOK, SessionType
    <3>4. TxInv' /\ WorkInv'
      BY <1>0, <2>0, <2>1, <3>1 DEF engineVars, TxInv, WorkInv, Sound
    <3> QED
      BY <1>1, <2>1, <3>3, <3>4 DEF OrmInv
  <2>2. CASE /\ committed' = d /\ (locked => d = committed)
             /\ work' = work /\ locked' = locked
    <3>1. OrmTypeOK'
      BY <1>0, <1>1, <2>0, <2>2 DEF engineVars, OrmTypeOK, SessionType
    <3>2. TxInv'
      BY <1>0, <2>2 DEF engineVars, TxInv
    <3>3. WorkInv'
      <4>1. CASE locked
        BY <1>0, <2>2, <4>1 DEF engineVars, WorkInv, Sound, Migrated
      <4>2. CASE ~locked
        BY <1>0, <2>0, <2>2, <4>2 DEF engineVars, WorkInv, Sound
      <4> QED
        BY <4>1, <4>2
    <3>4. committed' # committed => ~locked /\ s = "user"
      BY <1>0, <1>4, <2>2 DEF Active, Executes, DB, TxInv, Sessions
    <3> QED
      BY <1>1, <2>2, <3>1, <3>2, <3>3, <3>4 DEF OrmInv
  <2> QED
    BY <1>4, <2>1, <2>2, ExecutesStep
<1> QED
  BY <1>2, <1>3, <1>4

\* The session of the transaction, ended or not, never writes the database.
LEMMA TxLeaves ==
    ASSUME OrmInv, Executed("tx") PROVE committed' = committed
<1>1. "tx" \in Sessions /\ Active("tx")
  BY DEF Executed, TableCall, Terminal, Sessions
<1>2. UNCHANGED dbVars \/ \E d : Executes("tx", d)
  BY DEF Executed, TableCall, Terminal, Exec
<1>3. DB("tx") # "none"
  BY <1>1 DEF OrmInv, TxInv, Active, DB
<1> QED
  BY <1>2, <1>3 DEF Executes, dbVars

LEMMA SessionStep ==
    ASSUME OrmInv, NEW s \in Sessions,
           \/ \E k \in Chained : Chain(s, k)
           \/ \E call \in DOMAIN Calls : Terminal(s, call)
           \/ TableCall(s) \/ Panics(s)
    PROVE  /\ OrmInv'
           /\ committed' # committed =>
                 ~locked /\ Executed("user") /\ ~Executed("tx")
<1>0. OrmTypeOK /\ ClauseInv /\ TxInv /\ WorkInv
  BY DEF OrmInv
<1>1. ASSUME NEW k \in Chained, Chain(s, k)
      PROVE  OrmInv' /\ committed' = committed
  <2>1. /\ clause' = [clause EXCEPT ![s] = [j \in Kinds |->
                          IF j \in {k} THEN "own" ELSE clause[s][j]]]
        /\ wants' = [wants EXCEPT ![s] = @ \cup {k}]
        /\ UNCHANGED <<refTable, tx, panicked, committed, work, locked, pc, todo,
                       dropped>>
    BY <1>1 DEF Chain, Set, dbVars, engineVars
  <2>2. k \in Kinds
    BY OrmAssumption DEF Kinds
  <2>3. OrmTypeOK'
    BY <1>0, <2>1, <2>2 DEF OrmTypeOK
  <2>4. ClauseInv'
    BY <1>0, <2>1, <2>2 DEF OrmTypeOK, ClauseInv
  <2>5. TxInv' /\ WorkInv'
    BY <1>0, <2>1 DEF TxInv, WorkInv, Sound, Migrated
  <2> QED
    BY <2>1, <2>3, <2>4, <2>5 DEF OrmInv
<1>2. ASSUME NEW call \in DOMAIN Calls, Terminal(s, call)
      PROVE  /\ OrmInv'
             /\ committed' # committed =>
                   ~locked /\ Executed("user")
  <2>1. PICK ok \in BOOLEAN : Exec(s, Effects(s, call), ok)
    BY <1>2 DEF Terminal
  <2>2. Active(s) /\ UNCHANGED <<tx, engineVars>>
    BY <1>2 DEF Terminal
  <2>3. refTable' \in [Sessions -> BOOLEAN]
    BY <1>0, <1>2 DEF Terminal, HasRefTable, OrmTypeOK
  <2>4. Effects(s, call) \subseteq SoundTable
    BY <2>2, SeenSound, EffectsSound DEF Effects
  <2> QED
    BY <1>2, <2>1, <2>2, <2>3, <2>4, ProgramStep DEF Executed
<1>3. ASSUME TableCall(s)
      PROVE  /\ OrmInv'
             /\ committed' # committed =>
                   ~locked /\ Executed("user")
  <2> DEFINE effects == Created(Seen(s)) \cup {Gone(Seen(s)), Seen(s)}
  <2>1. PICK ok \in BOOLEAN : Exec(s, effects, ok)
    BY <1>3 DEF TableCall
  <2>2. Active(s) /\ UNCHANGED <<refTable, tx, engineVars>>
    BY <1>3 DEF TableCall
  <2>3. refTable' \in [Sessions -> BOOLEAN]
    BY <1>0, <2>2 DEF OrmTypeOK
  <2>4. effects \subseteq SoundTable
    BY <2>2, SeenSound, EffectsSound
  <2> HIDE DEF effects
  <2> QED
    BY <1>3, <2>1, <2>2, <2>3, <2>4, ProgramStep DEF Executed
<1>4. ASSUME Panics(s)
      PROVE  OrmInv' /\ committed' = committed
  <2>1. /\ clause' = [clause EXCEPT ![s] = Aged(s)]
        /\ wants' = [wants EXCEPT ![s] = {}]
        /\ panicked' = [panicked EXCEPT ![s] = TRUE]
        /\ pc' = pc \/ (pc = "func" /\ pc' = "rollback")
        /\ UNCHANGED <<refTable, tx, committed, work, locked, todo, dropped>>
    BY <1>4 DEF Panics, dbVars
  <2>2. Aged(s) \in [Kinds -> {"unset", "own", "stale"}]
    BY <1>0 DEF Aged, OrmTypeOK
  <2>3. OrmTypeOK'
    BY <1>0, <2>1, <2>2 DEF OrmTypeOK
  <2>4. ClauseInv'
    BY <1>0, <2>1 DEF OrmTypeOK, ClauseInv
  <2>5. TxInv' /\ WorkInv'
    BY <1>0, <2>1 DEF TxInv, WorkInv, Sound, Migrated
  <2> QED
    BY <2>1, <2>3, <2>4, <2>5 DEF OrmInv
<1> QED
  BY <1>1, <1>2, <1>3, <1>4, TxLeaves

\* A statement of the transaction's session, that ends well or does not.
LEMMA OwnExecEnds ==
    ASSUME OrmInv, pc # "idle", NEW effects, Exec("tx", effects, TRUE),
           UNCHANGED refTable
    PROVE  /\ SessionType' /\ ClauseInv' /\ committed' = committed
           /\ locked' = TRUE /\ \E d \in effects : work' = d
<1>1. "tx" \in Sessions /\ tx["tx"] = "open" /\ refTable' \in [Sessions -> BOOLEAN]
  BY DEF OrmInv, OrmTypeOK, TxInv, Sessions
<1>2. Clear("tx", TRUE) /\ \E d \in effects : Executes("tx", d)
  BY DEF Exec
<1>3. SessionType' /\ ClauseInv'
  BY <1>1, <1>2, ClearStep
<1> QED
  BY <1>1, <1>2, <1>3 DEF Executes, DB

LEMMA OwnExecFails ==
    ASSUME OrmInv, NEW effects, Exec("tx", effects, FALSE), UNCHANGED refTable
    PROVE  SessionType' /\ ClauseInv' /\ UNCHANGED <<committed, work, locked>>
<1>1. "tx" \in Sessions /\ refTable' \in [Sessions -> BOOLEAN]
  BY DEF OrmInv, OrmTypeOK, Sessions
<1>2. Clear("tx", FALSE) /\ UNCHANGED dbVars
  BY DEF Exec
<1> QED
  BY <1>1, <1>2, ClearStep DEF dbVars

\* The database of the transaction, once a statement of it has ended well.
LEMMA SeenLocked == ASSUME OrmInv, locked PROVE Seen("tx") = work
  BY DEF OrmInv, TxInv, Seen, DB

LEMMA TransactionStep ==
    ASSUME OrmInv, \/ \E start \in {"func", "has"} : Transaction(start)
                   \/ Returns
    PROVE  OrmInv' /\ committed' = committed
<1>0. OrmTypeOK /\ ClauseInv /\ TxInv /\ WorkInv
  BY DEF OrmInv
<1>1. ASSUME NEW start \in {"func", "has"}, Transaction(start)
      PROVE  OrmInv' /\ committed' = committed
  <2>1. /\ pc = "idle" /\ pc' = start
        /\ clause' = [clause EXCEPT !["tx"] = Unset]
        /\ wants' = [wants EXCEPT !["tx"] = {}]
        /\ panicked' = [panicked EXCEPT !["tx"] = FALSE]
        /\ refTable' = [refTable EXCEPT !["tx"] = start = "has"]
        /\ tx' = [tx EXCEPT !["tx"] = "open"]
        /\ UNCHANGED <<committed, work, locked, todo, dropped>>
    BY <1>1 DEF Transaction, dbVars
  <2>2. OrmTypeOK'
    BY <1>0, <2>1 DEF OrmTypeOK, Unset
  <2>3. ClauseInv'
    BY <1>0, <2>1 DEF OrmTypeOK, ClauseInv, Unset
  <2>4. TxInv' /\ WorkInv'
    BY <1>0, <2>1 DEF OrmTypeOK, TxInv, WorkInv, Sound, Sessions
  <2> QED
    BY <2>1, <2>2, <2>3, <2>4 DEF OrmInv
<1>2. ASSUME Returns PROVE OrmInv' /\ committed' = committed
  <2>1. /\ pc = "func" /\ pc' \in {"commit", "rollback"}
        /\ UNCHANGED <<clause, refTable, tx, wants, panicked, committed, work,
                       locked, todo, dropped>>
    BY <1>2 DEF Returns, sessionVars, dbVars
  <2>2. OrmTypeOK' /\ ClauseInv'
    BY <1>0, <2>1 DEF OrmTypeOK, ClauseInv
  <2>3. TxInv' /\ WorkInv'
    BY <1>0, <2>1 DEF TxInv, WorkInv, Sound
  <2> QED
    BY <2>1, <2>2, <2>3 DEF OrmInv
<1> QED
  BY <1>1, <1>2

\* The deferred function of Transaction, which ends it one way or the other.
LEMMA EndsStep ==
    ASSUME OrmInv, Commit \/ Rollback
    PROVE  /\ OrmInv'
           /\ committed' # committed => Commit
           /\ Commit /\ pc = "migrated" => committed' = Migrated(committed)
<1>0. OrmTypeOK /\ ClauseInv /\ TxInv /\ WorkInv
  BY DEF OrmInv
<1>1. \A d : Ends(d) =>
        /\ committed' = d /\ locked' = FALSE /\ work' = d
        /\ tx' = [tx EXCEPT !["tx"] = "done"]
        /\ pc' = "idle" /\ todo' = {} /\ dropped' = FALSE
        /\ UNCHANGED <<clause, refTable, wants, panicked>>
  BY DEF Ends
<1>2. ASSUME NEW d \in SoundTable, Ends(d) PROVE OrmInv'
  <2>0. d \in Table /\ Sound(d)
    BY DEF SoundTable
  <2>1. OrmTypeOK' /\ ClauseInv'
    BY <1>0, <1>1, <1>2, <2>0 DEF OrmTypeOK, ClauseInv
  <2>2. TxInv' /\ WorkInv'
    BY <1>0, <1>1, <1>2, <2>0 DEF OrmTypeOK, TxInv, WorkInv, Sound, Sessions
  <2> QED
    BY <2>1, <2>2 DEF OrmInv
<1>3. committed \in SoundTable
  BY <1>0 DEF OrmTypeOK, WorkInv, SoundTable
<1>4. CASE Commit
  <2>1. pc \in {"commit", "migrated"} /\ Ends(Seen("tx"))
    BY <1>4 DEF Commit
  <2>2. pc = "migrated" => Seen("tx") = Migrated(committed)
    BY <1>0, SeenLocked DEF WorkInv
  <2>3. Migrated(committed) \in SoundTable
    BY <1>3, OrmAssumption DEF Migrated, SoundTable, Sound, Table, NoTable
  <2>4. pc = "commit" => Seen("tx") \in SoundTable
    BY <1>0, <1>3 DEF OrmTypeOK, WorkInv, Seen, SoundTable
  <2> QED
    BY <1>1, <1>2, <1>4, <2>1, <2>2, <2>3, <2>4
<1>5. CASE Rollback /\ ~Commit
  <2>1. Ends(committed)
    BY <1>5 DEF Rollback
  <2> QED
    BY <1>1, <1>2, <1>3, <1>5, <2>1
<1> QED
  BY <1>4, <1>5

\* The transaction of Migrate is where the rest of the invariant says it is.
LEMMA MigrateKeeps ==
    ASSUME OrmInv, pc # "idle", pc' \notin {"idle", "func", "commit"},
           SessionType', ClauseInv', committed' = committed, UNCHANGED tx,
           work' \in Table, locked' \in BOOLEAN, todo' \subseteq Cols,
           dropped' \in BOOLEAN,
           pc' \in {"rollback", "create", "select", "add", "migrated"},
           pc' = "create" /\ locked' => work' = committed,
           pc' = "select" => locked' /\ work' = committed,
           pc' = "add" => /\ locked'
                          /\ work' = [committed EXCEPT !.cols = work'.cols]
                          /\ committed.cols \subseteq work'.cols
                          /\ work'.cols \cup todo' = committed.cols \cup Fields
                          /\ dropped' <=> committed.cols \ Fields # {},
           pc' = "migrated" => locked' /\ work' = Migrated(committed)
    PROVE  OrmInv'
<1>1. OrmTypeOK'
  BY DEF OrmInv, OrmTypeOK, SessionType
<1>2. TxInv'
  BY DEF OrmInv, TxInv
<1>3. WorkInv'
  BY DEF OrmInv, WorkInv, Sound, Migrated
<1> QED
  BY <1>1, <1>2, <1>3 DEF OrmInv

LEMMA MigrateStep ==
    ASSUME OrmInv, \/ MigrateHas \/ MigrateCreate \/ MigrateSelect
                   \/ (\E col \in Cols : MigrateAdd(col)) \/ MigrateAdded \/ MigrateCopy
    PROVE  OrmInv' /\ committed' = committed
<1>0. /\ OrmTypeOK /\ ClauseInv /\ TxInv /\ WorkInv
      /\ committed \in Table /\ work \in Table /\ locked \in BOOLEAN
      /\ todo \subseteq Cols /\ dropped \in BOOLEAN
  BY DEF OrmInv, OrmTypeOK
<1>1. Seen("tx") \in Table
  BY <1>0 DEF Seen
\* The steps that lead to a Rollback: the statement has failed.
<1>2. ASSUME NEW effects, effects \subseteq Table, pc # "idle",
             Exec("tx", effects, FALSE), pc' = "rollback", UNCHANGED <<refTable, tx>>,
             todo' \subseteq Cols, dropped' \in BOOLEAN
      PROVE  OrmInv' /\ committed' = committed
  <2>1. /\ SessionType' /\ ClauseInv' /\ committed' = committed
        /\ UNCHANGED <<work, locked>>
    BY <1>2, OwnExecFails
  <2> QED
    BY <1>0, <1>2, <2>1, MigrateKeeps
<1>3. ASSUME NEW d \in Table, pc # "idle", Exec("tx", {d}, TRUE),
             UNCHANGED refTable
      PROVE  /\ SessionType' /\ ClauseInv' /\ committed' = committed
             /\ locked' = TRUE /\ work' = d
  <2> DEFINE effects == {d}
  <2>1. Exec("tx", effects, TRUE)
    BY <1>3
  <2> HIDE DEF effects
  <2>2. /\ SessionType' /\ ClauseInv' /\ committed' = committed
        /\ locked' = TRUE /\ \E e \in effects : work' = e
    BY <1>3, <2>1, OwnExecEnds
  <2> QED
    BY <2>2 DEF effects
<1>4. ASSUME MigrateHas PROVE OrmInv' /\ committed' = committed
  <2>1. /\ pc = "has" /\ ~locked /\ Seen("tx") = committed
        /\ UNCHANGED <<refTable, tx, todo, dropped>>
    BY <1>0, <1>4 DEF MigrateHas, WorkInv, Seen
  <2>2. \/ Exec("tx", {committed}, TRUE) /\ pc' \in {"create", "select"}
        \/ Exec("tx", {}, FALSE) /\ pc' = "create"
    BY <1>4, <2>1 DEF MigrateHas
  <2>3. CASE Exec("tx", {committed}, TRUE) /\ pc' \in {"create", "select"}
    <3>1. /\ SessionType' /\ ClauseInv' /\ committed' = committed
          /\ locked' = TRUE /\ work' = committed
      BY <1>3, <1>0, <2>1, <2>3
    <3> QED
      BY <1>0, <2>1, <2>3, <3>1, MigrateKeeps
  <2>4. CASE Exec("tx", {}, FALSE) /\ pc' = "create"
    <3>1. /\ SessionType' /\ ClauseInv' /\ committed' = committed
          /\ UNCHANGED <<work, locked>>
      BY <2>1, <2>4, OwnExecFails
    <3> QED
      BY <1>0, <2>1, <2>4, <3>1, MigrateKeeps
  <2> QED
    BY <2>2, <2>3, <2>4
<1>5. ASSUME MigrateCreate PROVE OrmInv' /\ committed' = committed
  <2>1. pc = "create" /\ UNCHANGED <<refTable, tx, todo, dropped>>
    BY <1>5 DEF MigrateCreate, Step
  <2>2. Seen("tx") = committed
    BY <1>0, <2>1 DEF WorkInv, Seen
  <2>3. /\ Created(committed) \subseteq {Migrated(committed)}
        /\ Created(committed) \subseteq Table
    BY <1>0, OrmAssumption DEF Created, Migrated, WorkInv, Sound, Table, NoTable
  <2>4. CASE Exec("tx", Created(committed), TRUE) /\ pc' = "migrated"
    <3>1. /\ SessionType' /\ ClauseInv' /\ committed' = committed
          /\ locked' = TRUE /\ work' = Migrated(committed) /\ work' \in Table
      BY <2>1, <2>3, <2>4, OwnExecEnds
    <3> QED
      BY <1>0, <2>1, <2>4, <3>1, MigrateKeeps
  <2>5. CASE Exec("tx", Created(committed), FALSE) /\ pc' = "rollback"
    BY <1>0, <1>2, <2>1, <2>3, <2>5
  <2> QED
    BY <1>5, <2>2, <2>4, <2>5 DEF MigrateCreate, Step
<1>6. ASSUME MigrateSelect PROVE OrmInv' /\ committed' = committed
  <2>1. pc = "select" /\ locked /\ work = committed /\ Seen("tx") = committed
    BY <1>0, <1>6 DEF MigrateSelect, Step, WorkInv, Seen
  <2>2. /\ UNCHANGED <<refTable, tx>> /\ todo' = Fields \ committed.cols
        /\ dropped' = (committed.cols \ Fields # {})
    BY <1>6, <2>1 DEF MigrateSelect, Step, difference
  <2>3. todo' \subseteq Cols /\ dropped' \in BOOLEAN /\ committed.cols \subseteq Cols
    BY <1>0, <2>2, OrmAssumption DEF Table
  <2>4. CASE Exec("tx", {committed}, TRUE) /\ pc' = "add"
    <3>1. /\ SessionType' /\ ClauseInv' /\ committed' = committed
          /\ locked' = TRUE /\ work' = committed
      BY <1>0, <1>3, <2>1, <2>2, <2>4
    <3>3. committed = [committed EXCEPT !.cols = committed.cols]
      BY <1>0 DEF Table
    <3>4. committed.cols \cup todo' = committed.cols \cup Fields
      BY <2>2
    <3> QED
      BY <1>0, <2>1, <2>2, <2>3, <2>4, <3>1, <3>3, <3>4, MigrateKeeps
  <2>5. CASE Exec("tx", {committed}, FALSE) /\ pc' = "rollback"
    BY <1>0, <1>2, <2>1, <2>2, <2>3, <2>5
  <2> QED
    BY <1>6, <2>1, <2>4, <2>5 DEF MigrateSelect, Step
<1>7. ASSUME NEW col \in Cols, MigrateAdd(col) PROVE OrmInv' /\ committed' = committed
  <2>1. /\ pc = "add" /\ col \in todo /\ todo' = todo \ {col}
        /\ UNCHANGED <<refTable, tx, dropped>>
    BY <1>7 DEF MigrateAdd, Step
  <2>2. /\ locked /\ Seen("tx") = work
        /\ work = [committed EXCEPT !.cols = work.cols]
        /\ committed.cols \subseteq work.cols
        /\ work.cols \cup todo = committed.cols \cup Fields
        /\ dropped <=> committed.cols \ Fields # {}
    BY <1>0, <2>1, SeenLocked DEF WorkInv
  <2> DEFINE d == [work EXCEPT !.cols = @ \cup {col}]
  <2>3. /\ d \in Table /\ d = [committed EXCEPT !.cols = d.cols]
        /\ committed.cols \subseteq d.cols
        /\ d.cols \cup (todo \ {col}) = committed.cols \cup Fields
    <3>1. d.cols = work.cols \cup {col}
      BY <1>0 DEF Table
    <3>2. d \in Table
      BY <1>0 DEF Table
    <3>3. d = [committed EXCEPT !.cols = d.cols]
      BY <1>0, <2>2 DEF Table
    <3> QED
      BY <2>1, <2>2, <3>1, <3>2, <3>3
  <2>4. \/ Exec("tx", {d}, TRUE) /\ pc' = "add"
        \/ Exec("tx", {d}, FALSE) /\ pc' = "rollback"
    BY <1>7, <2>2 DEF MigrateAdd, Step
  <2> HIDE DEF d
  <2>5. CASE Exec("tx", {d}, TRUE) /\ pc' = "add"
    <3>1. /\ SessionType' /\ ClauseInv' /\ committed' = committed
          /\ locked' = TRUE /\ work' = d
      BY <1>3, <2>1, <2>3, <2>5
    <3> QED
      BY <1>0, <2>1, <2>2, <2>3, <2>5, <3>1, MigrateKeeps
  <2>6. CASE Exec("tx", {d}, FALSE) /\ pc' = "rollback"
    <3>1. {d} \subseteq Table /\ todo' \subseteq Cols /\ dropped' \in BOOLEAN
      BY <1>0, <2>1, <2>3
    <3> QED
      BY <1>2, <2>1, <2>6, <3>1
  <2> QED
    BY <2>4, <2>5, <2>6
\* What was added and what was there already are the new columns, if none is
\* left of the old ones.
<1>8. ASSUME MigrateAdded PROVE OrmInv' /\ committed' = committed
  <2>1. /\ pc = "add" /\ todo = {} /\ ~dropped /\ pc' = "migrated"
        /\ UNCHANGED <<clause, refTable, tx, wants, panicked, committed, work,
                       locked, todo, dropped>>
    BY <1>8 DEF MigrateAdded, sessionVars, dbVars
  <2>2. work.cols = Fields
    BY <1>0, <2>1 DEF WorkInv
  <2>3. locked /\ work = Migrated(committed)
    BY <1>0, <2>1, <2>2 DEF WorkInv, Migrated
  <2>4. SessionType' /\ ClauseInv'
    BY <1>0, <2>1 DEF OrmTypeOK, SessionType, ClauseInv
  <2> QED
    BY <1>0, <2>1, <2>3, <2>4, MigrateKeeps
<1>9. ASSUME MigrateCopy PROVE OrmInv' /\ committed' = committed
  <2>1. pc = "add" /\ todo = {} /\ dropped /\ UNCHANGED <<refTable, tx, todo, dropped>>
    BY <1>9 DEF MigrateCopy
  <2>2. locked /\ Seen("tx") = work /\ work = [committed EXCEPT !.cols = work.cols]
    BY <1>0, <2>1, SeenLocked DEF WorkInv
  <2>3. /\ Copied(work) \in Table /\ Swapped(Copied(work)) \in Table
        /\ [Copied(work) EXCEPT !.cols = NoTable] \in Table
    BY <1>0, OrmAssumption DEF Table, Copied, Swapped, NoTable
  <2>4. Swapped(Copied(work)) = Migrated(committed)
    <3>1. committed.tmp = NoTable
      BY <1>0 DEF WorkInv, Sound
    <3> QED
      BY <1>0, <2>2, <3>1 DEF Table, Copied, Swapped, Migrated
  <2>5. CASE Exec("tx", {Swapped(Copied(work))}, TRUE) /\ pc' = "migrated"
    <3>1. /\ SessionType' /\ ClauseInv' /\ committed' = committed
          /\ locked' = TRUE /\ work' = Migrated(committed) /\ work' \in Table
      BY <1>3, <2>1, <2>3, <2>4, <2>5
    <3> QED
      BY <1>0, <2>1, <2>5, <3>1, MigrateKeeps
  <2>6. ASSUME NEW d \in Table, Executes("tx", d), Clear("tx", FALSE),
               pc' = "rollback"
        PROVE  OrmInv' /\ committed' = committed
    <3>1. "tx" \in Sessions /\ tx["tx"] = "open"
      BY <1>0, <2>1 DEF TxInv, Sessions
    <3>2. committed' = committed /\ work' = d /\ locked' = TRUE
      BY <2>6, <3>1 DEF Executes, DB
    <3>3. refTable' \in [Sessions -> BOOLEAN]
      BY <1>0, <2>1 DEF OrmTypeOK
    <3>4. SessionType' /\ ClauseInv'
      BY <2>6, <3>1, <3>3, ClearStep
    <3> QED
      BY <1>0, <2>1, <2>6, <3>2, <3>4, MigrateKeeps
  <2> QED
    BY <1>0, <1>9, <2>2, <2>3, <2>5, <2>6 DEF MigrateCopy
<1> QED
  BY <1>4, <1>5, <1>6, <1>7, <1>8, <1>9

LEMMA NextOrm ==
    ASSUME OrmInv, OrmNext
    PROVE  /\ OrmInv'
           /\ committed' # committed =>
                 Commit \/ (~locked /\ Executed("user") /\ ~Executed("tx"))
           /\ Commit /\ pc = "migrated" => committed' = Migrated(committed)
<1> DEFINE Writes == committed' # committed =>
               Commit \/ (~locked /\ Executed("user") /\ ~Executed("tx"))
<1>1. ASSUME NEW s \in Sessions,
             \/ \E k \in Chained : Chain(s, k)
             \/ \E call \in DOMAIN Calls : Terminal(s, call)
             \/ TableCall(s) \/ Panics(s)
      PROVE  OrmInv' /\ Writes
  BY <1>1, SessionStep
<1>2. ASSUME (\E start \in {"func", "has"} : Transaction(start)) \/ Returns
      PROVE  OrmInv' /\ Writes
  BY <1>2, TransactionStep
<1>3. ASSUME Commit \/ Rollback PROVE OrmInv' /\ Writes
  BY <1>3, EndsStep
<1>4. ASSUME \/ MigrateHas \/ MigrateCreate \/ MigrateSelect
             \/ (\E col \in Cols : MigrateAdd(col)) \/ MigrateAdded \/ MigrateCopy
      PROVE  OrmInv' /\ Writes
  BY <1>4, MigrateStep
<1> HIDE DEF Writes
<1>5. OrmInv' /\ Writes
  BY <1>1, <1>2, <1>3, <1>4 DEF OrmNext
<1>6. Commit /\ pc = "migrated" => committed' = Migrated(committed)
  BY EndsStep
<1> QED
  BY <1>5, <1>6 DEF Writes

LEMMA StepOrm == OrmInv /\ [OrmNext]_ormVars => OrmInv'
<1> SUFFICES ASSUME OrmInv, UNCHANGED ormVars PROVE OrmInv'
  BY NextOrm
<1>1. UNCHANGED <<clause, refTable, tx, wants, panicked, committed, work, locked,
                  pc, todo, dropped>>
  BY DEF ormVars, sessionVars, dbVars, engineVars
<1>2. OrmTypeOK' /\ ClauseInv'
  BY <1>1 DEF OrmInv, OrmTypeOK, ClauseInv
<1>3. TxInv' /\ WorkInv'
  BY <1>1 DEF OrmInv, TxInv, WorkInv, Sound, Migrated
<1> QED
  BY <1>2, <1>3 DEF OrmInv

\* For any tables and any order of calls on the two sessions: no session keeps
\* parts of a call that has ended, and a Migrate is where its columns say.
THEOREM OrmInvariant == OrmSpec => []OrmInv
  BY InitOrm, StepOrm, PTL DEF OrmSpec

\* A statement is built of what its own chain of calls has set, whatever the
\* calls before it ended with (Session.Clear, Clause.Build).
THEOREM OwnStatementHolds == OrmSpec => []OwnStatement
<1>1. ASSUME OrmInv, NEW s \in Sessions, NEW call \in DOMAIN Calls, ~panicked[s]
      PROVE  /\ Build(s, call) = (wants[s] \cup Own(call)) \cap Calls[call]
             /\ \A k \in Build(s, call) \ Own(call) : clause[s][k] = "own"
  <2>1. Calls[call] \subseteq Kinds
    BY DEF Calls, Kinds
  <2>2. \A k \in Kinds : clause[s][k] = IF k \in wants[s] THEN "own" ELSE "unset"
    BY <1>1 DEF OrmInv, ClauseInv
  <2>3. \A k \in Kinds : Set(s, Own(call))[k] =
                            IF k \in Own(call) THEN "own" ELSE clause[s][k]
    BY DEF Set
  <2> QED
    BY <2>1, <2>2, <2>3 DEF Build
<1>2. OrmInv => OwnStatement
  BY <1>1 DEF OwnStatement, OrmInv
<1> QED
  BY <1>2, OrmInvariant, PTL

\* No statement of a transaction's session changes the database: what it has done
\* reaches it at its Commit or not at all, and a Migrate that commits has made exactly the new columns and kept
\* the rows (Engine.Transaction, Engine.Migrate).
THEOREM AllOrNothingHolds == OrmSpec => AllOrNothing
<1>1. OrmInv /\ [OrmNext]_ormVars =>
        [/\ committed' # committed =>
              Commit \/ (~locked /\ Executed("user") /\ ~Executed("tx"))
         /\ Commit /\ pc = "migrated" => committed' = Migrated(committed)]_ormVars
  BY NextOrm
<1> QED
  BY <1>1, OrmInvariant, PTL DEF OrmSpec, AllOrNothing

------------------------------------------------------------------------------
(* The LRU list, for any keys, lengths and limit: the counter is what the  *)
(* entries take, and the entries are the keys used last.                   *)

Caches == [ll : Seq(Keys), len : [Keys -> Nat], nbytes : Int, maxBytes : Nat]

\* What a key takes, and what the keys of a finite set take.
LEMMA SpaceOne ==
  ASSUME NEW c, c.len \in [Keys -> Nat], NEW k \in Keys
  PROVE  /\ IsFiniteSet({k} \X (1..(KeyLen[k] + c.len[k])))
         /\ Cardinality({k} \X (1..(KeyLen[k] + c.len[k]))) = KeyLen[k] + c.len[k]
<1> DEFINE size == KeyLen[k] + c.len[k]
<1>1. size \in Nat
  BY LruAssumption
<1>2. IsFiniteSet({k}) /\ Cardinality({k}) = 1
  BY FS_Singleton
<1> HIDE DEF size
<1>3. IsFiniteSet(1..size) /\ Cardinality(1..size) = size
  BY <1>1, FS_Interval
<1>4. /\ IsFiniteSet({k} \X (1..size))
      /\ Cardinality({k} \X (1..size)) = 1 * size
  <2> DEFINE one == {k}
             bytes == 1..size
  <2>1. IsFiniteSet(one) /\ Cardinality(one) = 1
    BY <1>2
  <2>2. IsFiniteSet(bytes) /\ Cardinality(bytes) = size
    BY <1>3
  <2> HIDE DEF one, bytes
  <2>3. /\ IsFiniteSet(one \X bytes)
        /\ Cardinality(one \X bytes) = Cardinality(one) * Cardinality(bytes)
    BY <2>1, <2>2, FS_Product, Zenon
  <2> QED
    BY <2>1, <2>2, <2>3 DEF one, bytes
<1> QED
  BY <1>1, <1>4 DEF size

LEMMA SpaceFinite ==
  ASSUME NEW c, c.len \in [Keys -> Nat],
         NEW keys, keys \subseteq Keys, IsFiniteSet(keys)
  PROVE  IsFiniteSet(Space(c, keys)) /\ Bytes(c, keys) \in Nat
<1> DEFINE OfKey(k) == {k} \X (1..(KeyLen[k] + c.len[k]))
           All == {OfKey(k) : k \in keys}
           f == [k \in keys |-> OfKey(k)]
<1>1. \A S \in All : IsFiniteSet(S)
  BY SpaceOne
<1> HIDE DEF OfKey
<1>2. f \in Surjection(keys, All)
  BY DEF Surjection
<1>3. IsFiniteSet(All)
  <2> HIDE DEF f, All
  <2> QED
    BY <1>2, FS_Surjection
<1>4. IsFiniteSet(UNION All)
  <2> HIDE DEF All
  <2> QED
    BY <1>1, <1>3, FS_UNION
<1>5. IsFiniteSet(Space(c, keys))
  BY <1>4 DEF Space, OfKey
<1> QED
  BY <1>5, FS_CardinalityType DEF Bytes

LEMMA SpaceSplit ==
  ASSUME NEW c, c.len \in [Keys -> Nat],
         NEW keys, keys \subseteq Keys, IsFiniteSet(keys), NEW some \in SUBSET keys
  PROVE  Bytes(c, keys \ some) = Bytes(c, keys) - Bytes(c, some)
<1>1. Space(c, keys) \ Space(c, some) = Space(c, keys \ some)
  BY DEF Space
<1>2. Space(c, keys) \cap Space(c, some) = Space(c, some)
  BY DEF Space
<1>3. IsFiniteSet(Space(c, keys))
  BY SpaceFinite
<1>4. Cardinality(Space(c, keys) \ Space(c, some)) =
         Cardinality(Space(c, keys)) - Cardinality(Space(c, keys) \cap Space(c, some))
  BY <1>3, FS_Difference, Zenon
<1> QED
  BY <1>1, <1>2, <1>4, Zenon DEF Bytes

LEMMA SpaceAdd ==
  ASSUME NEW c, c.len \in [Keys -> Nat],
         NEW keys, keys \subseteq Keys, IsFiniteSet(keys), NEW k \in Keys \ keys
  PROVE  Bytes(c, keys \cup {k}) = Bytes(c, keys) + KeyLen[k] + c.len[k]
<1>1. IsFiniteSet(keys \cup {k}) /\ keys \cup {k} \subseteq Keys
  BY FS_AddElement
<1>2. (keys \cup {k}) \ keys = {k}
  OBVIOUS
<1>3. Bytes(c, {k}) = Bytes(c, keys \cup {k}) - Bytes(c, keys)
  BY <1>1, <1>2, SpaceSplit
<1>4. Space(c, {k}) = {k} \X (1..(KeyLen[k] + c.len[k]))
  BY DEF Space
<1>5. Bytes(c, {k}) = KeyLen[k] + c.len[k]
  BY <1>4, SpaceOne DEF Bytes
<1>6. Bytes(c, keys \cup {k}) \in Nat /\ Bytes(c, keys) \in Nat
  BY <1>1, SpaceFinite
<1>7. KeyLen[k] \in Nat /\ c.len[k] \in Nat
  BY LruAssumption
<1> QED
  BY <1>3, <1>5, <1>6, <1>7

LEMMA SpaceSame ==
  ASSUME NEW c, NEW d, NEW keys, \A k \in keys : c.len[k] = d.len[k]
  PROVE  Bytes(c, keys) = Bytes(d, keys)
<1>1. Space(c, keys) = Space(d, keys)
  BY DEF Space
<1> QED
  BY <1>1 DEF Bytes

LEMMA NoSpace ==
  ASSUME NEW c PROVE Bytes(c, {}) = 0
<1>1. Space(c, {}) = {}
  BY DEF Space
<1> QED
  BY <1>1, FS_EmptySet DEF Bytes

LEMMA ListFinite ==
  ASSUME NEW s \in Seq(Keys)
  PROVE  IsFiniteSet(ToSet(s)) /\ ToSet(s) \subseteq Keys
<1>1. s \in Surjection(1..Len(s), ToSet(s))
  BY DEF Surjection, ToSet
<1>2. IsFiniteSet(1..Len(s))
  BY FS_Interval
<1> QED
  BY <1>1, <1>2, FS_Surjection DEF ToSet

\* The list t is s with k at its front.
Fronted(s, k, t) ==
    /\ t \in Seq(Keys)
    /\ Len(t) = IF k \in ToSet(s) THEN Len(s) ELSE Len(s) + 1
    /\ t[1] = k
    /\ \A j \in 2..Len(t) :
          t[j] = IF \E i \in 1..(j - 1) : s[i] = k THEN s[j] ELSE s[j - 1]

\* MoveToFront puts a key first and keeps the order of the others.
LEMMA FrontList ==
  ASSUME NEW s \in Seq(Keys), IsInjective(s), NEW k \in Keys
  PROVE  Fronted(s, k, MoveToFront(s, k))
<1> DEFINE t == MoveToFront(s, k)
<1>1. CASE k \notin ToSet(s)
  <2>1. t = <<k>> \o s
    BY <1>1 DEF MoveToFront
  <2>2. /\ t \in Seq(Keys) /\ Len(t) = Len(s) + 1 /\ t[1] = k
        /\ \A j \in 2..Len(t) : t[j] = s[j - 1]
    BY <2>1
  <2>3. \A i \in 1..Len(s) : s[i] # k
    BY <1>1 DEF ToSet
  <2>4. \A j \in 2..Len(t) : ~ \E i \in 1..(j - 1) : s[i] = k
    BY <2>2, <2>3
  <2> QED
    BY <1>1, <2>2, <2>4 DEF Fronted
<1>2. CASE k \in ToSet(s)
  <2> DEFINE m == CHOOSE i \in 1..Len(s) : s[i] = k
             r == RemoveAt(s, m)
  <2>1. m \in 1..Len(s) /\ s[m] = k
    BY <1>2 DEF ToSet
  <2>2. t = <<k>> \o r
    BY <1>2 DEF MoveToFront
  <2> HIDE DEF m
  <2>3. /\ r \in Seq(Keys) /\ Len(r) = Len(s) - 1
        /\ \A j \in 1..Len(r) : r[j] = IF j < m THEN s[j] ELSE s[j + 1]
    <3> DEFINE a == SubSeq(s, 1, m - 1)
               b == SubSeq(s, m + 1, Len(s))
    <3>1. a \in Seq(Keys) /\ Len(a) = m - 1 /\ \A j \in 1..Len(a) : a[j] = s[j]
      BY <2>1
    <3>2. /\ b \in Seq(Keys) /\ Len(b) = Len(s) - m
          /\ \A j \in 1..Len(b) : b[j] = s[m + j]
      BY <2>1
    <3>3. r = a \o b
      BY DEF RemoveAt
    <3> HIDE DEF a, b, r
    <3>4. /\ r \in Seq(Keys) /\ Len(r) = Len(a) + Len(b)
          /\ \A j \in 1..Len(r) :
                r[j] = IF j <= Len(a) THEN a[j] ELSE b[j - Len(a)]
      <4>1. /\ a \o b \in Seq(Keys) /\ Len(a \o b) = Len(a) + Len(b)
            /\ \A j \in 1..(Len(a) + Len(b)) :
                  (a \o b)[j] = IF j <= Len(a) THEN a[j] ELSE b[j - Len(a)]
        BY <3>1, <3>2, ConcatProperties, Zenon
      <4> QED
        BY <3>3, <4>1, Zenon
    <3>5. Len(r) = Len(s) - 1
      BY <2>1, <3>1, <3>2, <3>4
    <3>6. ASSUME NEW j \in 1..Len(r)
          PROVE  r[j] = IF j < m THEN s[j] ELSE s[j + 1]
      <4>1. CASE j < m
        BY <2>1, <3>1, <3>4, <4>1
      <4>2. CASE ~(j < m)
        <5>1. j - Len(a) \in 1..Len(b) /\ ~(j <= Len(a))
          BY <2>1, <3>1, <3>2, <3>5, <4>2
        <5>2. m + (j - Len(a)) = j + 1
          BY <2>1, <3>1
        <5> QED
          BY <3>2, <3>4, <4>2, <5>1, <5>2
      <4> QED
        BY <4>1, <4>2
    <3> QED
      BY <3>4, <3>5, <3>6
  <2> HIDE DEF r
  <2>4. /\ t \in Seq(Keys) /\ Len(t) = Len(s) /\ t[1] = k
        /\ \A j \in 2..Len(t) : t[j] = r[j - 1]
    BY <2>2, <2>3
  <2>5. \A i \in 1..Len(s) : s[i] = k <=> i = m
    BY <2>1 DEF IsInjective
  <2> HIDE DEF t
  <2>6. ASSUME NEW j \in 2..Len(t)
        PROVE  t[j] = IF \E i \in 1..(j - 1) : s[i] = k THEN s[j] ELSE s[j - 1]
    <3>1. (\E i \in 1..(j - 1) : s[i] = k) <=> m <= j - 1
      BY <2>1, <2>4, <2>5
    <3>2. t[j] = IF j - 1 < m THEN s[j - 1] ELSE s[(j - 1) + 1]
      BY <2>3, <2>4
    <3>3. (j - 1) + 1 = j
      OBVIOUS
    <3> QED
      BY <2>1, <3>1, <3>2, <3>3
  <2> QED
    BY <1>2, <2>4, <2>6 DEF t, Fronted
<1> QED
  BY <1>1, <1>2

LEMMA FrontSet ==
  ASSUME NEW s \in Seq(Keys), IsInjective(s), NEW k \in Keys
  PROVE  /\ IsInjective(MoveToFront(s, k))
         /\ ToSet(MoveToFront(s, k)) = ToSet(s) \cup {k}
<1> DEFINE t == MoveToFront(s, k)
           Past(j) == \E i \in 1..(j - 1) : s[i] = k
<1>1. /\ t \in Seq(Keys) /\ Len(t) = IF k \in ToSet(s) THEN Len(s) ELSE Len(s) + 1
      /\ t[1] = k /\ \A j \in 2..Len(t) : t[j] = IF Past(j) THEN s[j] ELSE s[j - 1]
  BY FrontList DEF Fronted
<1>2. \A i, j \in 1..Len(s) : s[i] = s[j] => i = j
  BY DEF IsInjective
<1>3. k \in ToSet(s) <=> \E i \in 1..Len(s) : s[i] = k
  BY DEF ToSet
<1> HIDE DEF t
<1>0. Len(t) \in Nat /\ Len(s) \in Nat /\ Len(s) <= Len(t) /\ Len(t) <= Len(s) + 1
  BY <1>1
<1>4. ASSUME NEW j \in 2..Len(t)
      PROVE  \E i \in 1..Len(s) : t[j] = s[i] /\ s[i] # k /\ i = IF Past(j) THEN j ELSE j - 1
  <2>1. CASE Past(j)
    <3>1. k \in ToSet(s)
      BY <1>0, <1>3, <2>1
    <3>2. j \in 1..Len(s) /\ s[j] # k
      BY <1>0, <1>1, <1>2, <2>1, <3>1
    <3> QED
      BY <1>1, <2>1, <3>2
  <2>2. CASE ~Past(j)
    <3>1. j - 1 \in 1..Len(s) /\ s[j - 1] # k
      BY <1>0, <2>2
    <3> QED
      BY <1>1, <2>2, <3>1
  <2> QED
    BY <2>1, <2>2
<1>5. ASSUME NEW i \in 1..Len(t), NEW j \in 1..Len(t), t[i] = t[j], i < j
      PROVE  FALSE
  <2>1. j \in 2..Len(t)
    BY <1>0, <1>5
  <2>2. PICK b \in 1..Len(s) : t[j] = s[b] /\ s[b] # k /\ b = IF Past(j) THEN j ELSE j - 1
    BY <1>4, <2>1
  <2>3. i # 1
    BY <1>1, <1>5, <2>2
  <2>4. i \in 2..Len(t)
    BY <1>0, <2>3
  <2>5. PICK a \in 1..Len(s) : t[i] = s[a] /\ s[a] # k /\ a = IF Past(i) THEN i ELSE i - 1
    BY <1>4, <2>4
  <2>6. a = b
    BY <1>2, <1>5, <2>2, <2>5
  <2>7. Past(i) => Past(j)
    BY <1>5
  <2> QED
    BY <1>5, <2>2, <2>5, <2>6, <2>7
<1>6. IsInjective(t)
  <2>1. DOMAIN t = 1..Len(t)
    BY <1>1
  <2> QED
    BY <1>0, <1>5, <2>1 DEF IsInjective
<1>7. ToSet(t) \subseteq ToSet(s) \cup {k}
  <2> SUFFICES ASSUME NEW j \in 1..Len(t) PROVE t[j] \in ToSet(s) \cup {k}
    BY <1>1 DEF ToSet
  <2> QED
    BY <1>1, <1>4 DEF ToSet
<1>8. k \in ToSet(t)
  BY <1>1 DEF ToSet
<1>9. ASSUME NEW i \in 1..Len(s), s[i] # k
      PROVE  s[i] \in ToSet(t)
  <2>1. CASE Past(i)
    <3>1. i \in 2..Len(t) /\ t[i] = s[i]
      BY <1>1, <1>3, <2>1
    <3> QED
      BY <1>1, <3>1 DEF ToSet
  <2>2. CASE ~Past(i)
    <3>1. ~Past(i + 1)
      BY <1>9, <2>2
    <3>2. i + 1 \in 2..Len(t)
      <4>1. CASE k \in ToSet(s)
        <5>1. PICK m \in 1..Len(s) : s[m] = k
          BY <1>3, <4>1
        <5>2. m > i
          BY <1>9, <2>2, <5>1
        <5> QED
          BY <1>1, <4>1, <5>2
      <4> QED
        BY <1>1, <4>1
    <3>3. t[i + 1] = s[i]
      BY <1>1, <3>1, <3>2
    <3> QED
      BY <1>1, <3>2, <3>3 DEF ToSet
  <2> QED
    BY <2>1, <2>2
<1>10. ToSet(s) \subseteq ToSet(t)
  BY <1>8, <1>9 DEF ToSet
<1> QED
  BY <1>6, <1>7, <1>8, <1>10 DEF t

\* Lists that agree as far as the first goes still do when a key that both
\* move comes first.
LEMMA FrontAgree ==
  ASSUME NEW s \in Seq(Keys), NEW u \in Seq(Keys), IsInjective(s), IsInjective(u),
         Len(s) <= Len(u), \A i \in 1..Len(s) : s[i] = u[i], NEW k \in Keys
  PROVE  /\ Len(MoveToFront(s, k)) <= Len(MoveToFront(u, k))
         /\ \A j \in 1..Len(MoveToFront(s, k)) :
               MoveToFront(s, k)[j] = MoveToFront(u, k)[j]
<1> DEFINE t == MoveToFront(s, k)
           w == MoveToFront(u, k)
<1>0. Fronted(s, k, t) /\ Fronted(u, k, w)
  BY FrontList
<1> HIDE DEF t, w
<1>1. /\ t \in Seq(Keys) /\ Len(t) = IF k \in ToSet(s) THEN Len(s) ELSE Len(s) + 1
      /\ t[1] = k
      /\ \A j \in 2..Len(t) :
            t[j] = IF \E i \in 1..(j - 1) : s[i] = k THEN s[j] ELSE s[j - 1]
  BY <1>0 DEF Fronted
<1>2. /\ w \in Seq(Keys) /\ Len(w) = IF k \in ToSet(u) THEN Len(u) ELSE Len(u) + 1
      /\ w[1] = k
      /\ \A j \in 2..Len(w) :
            w[j] = IF \E i \in 1..(j - 1) : u[i] = k THEN u[j] ELSE u[j - 1]
  BY <1>0 DEF Fronted
<1>3. (k \in ToSet(s) <=> \E i \in 1..Len(s) : s[i] = k)
      /\ (k \in ToSet(u) <=> \E i \in 1..Len(u) : u[i] = k)
  BY DEF ToSet
<1>4. Len(s) \in Nat /\ Len(u) \in Nat /\ Len(t) \in Nat /\ Len(w) \in Nat
  BY <1>1, <1>2
<1>5. Len(t) <= Len(w)
  <2>1. CASE k \in ToSet(s)
    BY <1>1, <1>2, <1>4, <2>1
  <2>2. CASE k \notin ToSet(s)
    <3>1. k \in ToSet(u) => Len(u) > Len(s)
      BY <1>3, <1>4, <2>2
    <3> QED
      BY <1>1, <1>2, <1>4, <2>2, <3>1
  <2> QED
    BY <2>1, <2>2
<1>6. ASSUME NEW j \in 2..Len(t)
      PROVE  t[j] = w[j]
  <2>1. j \in Nat /\ j - 1 \in 1..Len(s) /\ j \in 2..Len(w)
    BY <1>1, <1>4, <1>5
  <2>2. (\E i \in 1..(j - 1) : s[i] = k) <=> (\E i \in 1..(j - 1) : u[i] = k)
    <3>1. \A i \in 1..(j - 1) : i \in 1..Len(s)
      BY <1>4, <2>1
    <3>2. \A i \in 1..(j - 1) : s[i] = u[i]
      BY <3>1
    <3> QED
      BY <3>2, Zenon
  <2>3. CASE \E i \in 1..(j - 1) : s[i] = k
    <3>1. k \in ToSet(s)
      BY <1>3, <1>4, <2>1, <2>3
    <3>2. j \in 1..Len(s)
      BY <1>1, <1>4, <2>1, <3>1
    <3> QED
      BY <1>1, <1>2, <2>1, <2>2, <2>3, <3>2
  <2>4. CASE ~ \E i \in 1..(j - 1) : s[i] = k
    BY <1>1, <1>2, <2>1, <2>2, <2>4
  <2> QED
    BY <2>3, <2>4
<1> QED
  BY <1>1, <1>2, <1>4, <1>5, <1>6 DEF t, w

\* A cache whose counter is what its entries take.
Sums(c) == /\ c \in Caches
           /\ IsInjective(c.ll)
           /\ c.nbytes = Bytes(c, ToSet(c.ll))

\* The fields of a cache after an assignment to some of them.
LEMMA TwoFields ==
  ASSUME NEW Lists, NEW Lens,
         NEW c \in [ll : Lists, len : Lens, nbytes : Int, maxBytes : Nat],
         NEW a \in Lists, NEW b \in Int, NEW d,
         d = [c EXCEPT !.ll = a, !.nbytes = b]
  PROVE  /\ d.ll = a /\ d.len = c.len /\ d.nbytes = b /\ d.maxBytes = c.maxBytes
         /\ d \in [ll : Lists, len : Lens, nbytes : Int, maxBytes : Nat]
<1>1. d.ll = a /\ d.len = c.len /\ d.nbytes = b /\ d.maxBytes = c.maxBytes
  OBVIOUS
<1>2. d \in [ll : Lists, len : Lens, nbytes : Int, maxBytes : Nat]
  OBVIOUS
<1> QED
  BY <1>1, <1>2

LEMMA ThreeFields ==
  ASSUME NEW Lists, NEW Lens,
         NEW c \in [ll : Lists, len : Lens, nbytes : Int, maxBytes : Nat],
         NEW a \in Lists, NEW b \in Int, NEW e \in Lens, NEW d,
         d = [c EXCEPT !.ll = a, !.len = e, !.nbytes = b]
  PROVE  /\ d.ll = a /\ d.len = e /\ d.nbytes = b /\ d.maxBytes = c.maxBytes
         /\ d \in [ll : Lists, len : Lens, nbytes : Int, maxBytes : Nat]
<1>1. d.ll = a /\ d.len = e /\ d.nbytes = b /\ d.maxBytes = c.maxBytes
  OBVIOUS
<1>2. d \in [ll : Lists, len : Lens, nbytes : Int, maxBytes : Nat]
  OBVIOUS
<1> QED
  BY <1>1, <1>2

LEMMA SameFields ==
  ASSUME NEW Lists, NEW Lens,
         NEW c \in [ll : Lists, len : Lens, nbytes : Int, maxBytes : Nat],
         NEW a, a = c.ll, NEW b, b = c.nbytes
  PROVE  [c EXCEPT !.ll = a, !.nbytes = b] = c
<1> DEFINE d == [c EXCEPT !.ll = a, !.nbytes = b]
<1>1. \A f \in {"ll", "len", "nbytes", "maxBytes"} : d[f] = c[f]
  OBVIOUS
<1>2. DOMAIN d = DOMAIN c /\ d = [f \in DOMAIN c |-> d[f]] /\ c = [f \in DOMAIN c |-> c[f]]
  OBVIOUS
<1>3. DOMAIN c = {"ll", "len", "nbytes", "maxBytes"}
  OBVIOUS
<1> HIDE DEF d
<1> QED
  BY <1>1, <1>2, <1>3 DEF d

LEMMA OldestGone ==
  ASSUME NEW c, Sums(c), NEW i \in 0..Len(c.ll)
  PROVE  LET d == RemoveOldest(c, i)
         IN  /\ Sums(d) /\ d.len = c.len /\ d.maxBytes = c.maxBytes
             /\ Len(d.ll) = i /\ \A j \in 1..i : d.ll[j] = c.ll[j]
<1> DEFINE d == RemoveOldest(c, i)
           all == ToSet(c.ll)
           left == {c.ll[j] : j \in 1..i}
<1>1. /\ c.ll \in Seq(Keys) /\ c.len \in [Keys -> Nat] /\ c.nbytes \in Int
      /\ c.maxBytes \in Nat /\ Len(c.ll) \in Nat
  BY DEF Sums, Caches
<1>7. IsFiniteSet(all) /\ all \subseteq Keys
  BY <1>1, ListFinite
<1>8. Oldest(c, i) \subseteq all
  BY <1>1 DEF Oldest, ToSet
<1>13. Bytes(c, Oldest(c, i)) \in Nat
  <2>1. IsFiniteSet(Oldest(c, i))
    BY <1>7, <1>8, FS_Subset
  <2> QED
    BY <1>1, <1>7, <1>8, <2>1, SpaceFinite
<1>2. /\ d.ll = SubSeq(c.ll, 1, i) /\ d.len = c.len /\ d.maxBytes = c.maxBytes
      /\ d.nbytes = c.nbytes - Bytes(c, Oldest(c, i)) /\ d \in Caches
  <2> DEFINE a == SubSeq(c.ll, 1, i)
             b == c.nbytes - Bytes(c, Oldest(c, i))
  <2>1. d = [c EXCEPT !.ll = a, !.nbytes = b]
    BY DEF RemoveOldest
  <2>2. a \in Seq(Keys) /\ b \in Int
    BY <1>1, <1>13
  <2> HIDE DEF a, b, d
  <2> QED
    BY <2>1, <2>2, TwoFields DEF Sums, Caches, a, b
<1> HIDE DEF d
<1>3. /\ d.ll \in Seq(Keys) /\ Len(d.ll) = i /\ \A j \in 1..i : d.ll[j] = c.ll[j]
  BY <1>1, <1>2
<1>4. \A j, m \in 1..Len(c.ll) : c.ll[j] = c.ll[m] => j = m
  BY <1>1 DEF Sums, IsInjective
<1>5. IsInjective(d.ll)
  <2>1. DOMAIN d.ll = 1..i
    BY <1>3
  <2>2. ASSUME NEW j \in 1..i, NEW m \in 1..i, d.ll[j] = d.ll[m]
        PROVE  j = m
    <3>1. j \in 1..Len(c.ll) /\ m \in 1..Len(c.ll)
      BY <1>1
    <3>2. c.ll[j] = c.ll[m]
      BY <1>3, <2>2
    <3> QED
      BY <1>4, <3>1, <3>2
  <2> QED
    BY <2>1, <2>2 DEF IsInjective
<1>6. ToSet(d.ll) = left
  BY <1>3 DEF ToSet
<1>9. all \ Oldest(c, i) = left
  <2>1. all = left \cup Oldest(c, i)
    <3>1. 1..Len(c.ll) = (1..i) \cup ((i + 1)..Len(c.ll))
      BY <1>1
    <3>2. all = {c.ll[j] : j \in 1..Len(c.ll)}
      BY <1>1 DEF ToSet
    <3>3. Oldest(c, i) = {c.ll[j] : j \in (i + 1)..Len(c.ll)}
      BY DEF Oldest
    <3> HIDE DEF all
    <3> QED
      BY <3>1, <3>2, <3>3
  <2>2. \A j \in 1..i, m \in (i + 1)..Len(c.ll) : c.ll[j] # c.ll[m]
    BY <1>1, <1>4
  <2> QED
    BY <2>1, <2>2 DEF Oldest
<1>10. Bytes(c, left) = Bytes(c, all) - Bytes(c, Oldest(c, i))
  BY <1>1, <1>7, <1>8, <1>9, SpaceSplit
<1>11. Bytes(c, left) = Bytes(d, left)
  BY <1>2, SpaceSame
<1>12. d.nbytes = Bytes(d, ToSet(d.ll))
  BY <1>2, <1>6, <1>10, <1>11 DEF Sums
<1> QED
  BY <1>2, <1>3, <1>5, <1>12 DEF Sums, d

\* The loop of Put ends with a cache within its limit, and with one entry more
\* it would not be.
LEMMA TrimEnds ==
  ASSUME NEW c, Sums(c)
  PROVE  \E i \in 0..Len(c.ll) :
            /\ Trim(c) = RemoveOldest(c, i)
            /\ ~Over(Trim(c))
            /\ i < Len(c.ll) => Over(RemoveOldest(c, i + 1))
<1> DEFINE Stops(i) == i = 0 \/ ~Over(RemoveOldest(c, i))
           rounds == {Len(c.ll) - i : i \in {j \in 0..Len(c.ll) : Stops(j)}}
           Final(i) == /\ i = 0 \/ ~Over(RemoveOldest(c, i))
                       /\ \A j \in (i + 1)..Len(c.ll) : Over(RemoveOldest(c, j))
<1>1. Len(c.ll) \in Nat
  BY DEF Sums, Caches
<1>2. rounds \subseteq Nat /\ Len(c.ll) \in rounds
  BY <1>1
<1>3. PICK r \in rounds : \A g \in rounds : r <= g
  <2> HIDE DEF rounds
  <2> QED
    BY <1>2, LeastIs
<1>4. PICK i \in 0..Len(c.ll) : Stops(i) /\ r = Len(c.ll) - i
  BY <1>3
<1>5. Final(i)
  <2> SUFFICES ASSUME NEW j \in (i + 1)..Len(c.ll), Stops(j) PROVE FALSE
    BY <1>4
  <2>1. j \in 0..Len(c.ll)
    BY <1>1
  <2>2. Len(c.ll) - j \in rounds
    BY <2>1
  <2> HIDE DEF rounds
  <2>3. r <= Len(c.ll) - j
    BY <1>3, <2>2
  <2> QED
    BY <1>1, <1>4, <2>1, <2>3
<1> HIDE DEF Final
<1> DEFINE e == CHOOSE m \in 0..Len(c.ll) : Final(m)
<1>6. e \in 0..Len(c.ll) /\ Final(e)
  BY <1>5
<1>7. Trim(c) = RemoveOldest(c, e)
  BY DEF Trim, Final
<1> HIDE DEF e
<1>8. ~Over(RemoveOldest(c, e))
  <2>1. CASE e = 0
    <3> DEFINE d == RemoveOldest(c, e)
    <3>1. Sums(d) /\ Len(d.ll) = 0
      BY <1>6, <2>1, OldestGone
    <3> HIDE DEF d
    <3>2. ToSet(d.ll) = {}
      BY <3>1 DEF Sums, Caches, ToSet
    <3>3. d.nbytes = 0 /\ d.maxBytes \in Nat
      BY <3>1, <3>2, NoSpace DEF Sums, Caches
    <3>4. ~Over(d)
      BY <3>3 DEF Over
    <3> QED
      BY <3>4 DEF d
  <2>2. CASE e # 0
    BY <1>6, <2>2 DEF Final
  <2> QED
    BY <2>1, <2>2
<1>9. e < Len(c.ll) => Over(RemoveOldest(c, e + 1))
  BY <1>1, <1>6 DEF Final
<1> QED
  BY <1>6, <1>7, <1>8, <1>9

\* The counter follows an insertion, and an update with another length.
LEMMA StoreSums ==
  ASSUME Sums(lru), NEW k \in Keys, NEW v \in Nat
  PROVE  /\ Sums(Store(k, v)) /\ Store(k, v).ll = MoveToFront(lru.ll, k)
         /\ Store(k, v).maxBytes = lru.maxBytes
<1> DEFINE c == Store(k, v)
           all == ToSet(lru.ll)
           rest == all \ {k}
<1>1. /\ lru.ll \in Seq(Keys) /\ lru.len \in [Keys -> Nat] /\ lru.nbytes \in Int
      /\ lru.maxBytes \in Nat /\ IsInjective(lru.ll)
      /\ lru.nbytes = Bytes(lru, all)
  BY DEF Sums, Caches
<1>2. /\ c.ll = MoveToFront(lru.ll, k) /\ c.len = [lru.len EXCEPT ![k] = v]
      /\ c.nbytes = lru.nbytes + v + (IF Holds(k) THEN -lru.len[k] ELSE KeyLen[k])
      /\ c.maxBytes = lru.maxBytes /\ c \in Caches
  <2> DEFINE a == MoveToFront(lru.ll, k)
             b == lru.nbytes + v + (IF Holds(k) THEN -lru.len[k] ELSE KeyLen[k])
             e == [lru.len EXCEPT ![k] = v]
  <2>1. c = [lru EXCEPT !.ll = a, !.len[k] = v, !.nbytes = b]
    BY DEF Store
  <2>2. [lru EXCEPT !.ll = a, !.len[k] = v, !.nbytes = b]
          = [lru EXCEPT !.ll = a, !.len = e, !.nbytes = b]
    BY <1>1 DEF Sums
  <2>3. a \in Seq(Keys) /\ e \in [Keys -> Nat]
    BY <1>1, FrontList DEF Fronted
  <2>4. b \in Int
    BY <1>1, LruAssumption
  <2> HIDE DEF a, b, c, e
  <2> QED
    BY <2>1, <2>2, <2>3, <2>4, ThreeFields DEF Sums, Caches, a, b, e
<1> HIDE DEF c
<1>3. /\ c.ll \in Seq(Keys) /\ IsInjective(c.ll) /\ ToSet(c.ll) = all \cup {k}
  BY <1>1, <1>2, FrontList, FrontSet DEF Fronted
<1>4. IsFiniteSet(all) /\ all \subseteq Keys
  BY <1>1, ListFinite
<1>5. IsFiniteSet(rest) /\ rest \subseteq Keys /\ k \in Keys \ rest
  BY <1>4, FS_Subset
<1>6. c.len \in [Keys -> Nat] /\ c.len[k] = v /\ \A q \in rest : lru.len[q] = c.len[q]
  BY <1>1, <1>2, <1>4
<1>7. all \cup {k} = rest \cup {k}
  OBVIOUS
<1>8. Bytes(c, all \cup {k}) = Bytes(c, rest) + KeyLen[k] + v
  BY <1>5, <1>6, <1>7, SpaceAdd
<1>9. Bytes(c, rest) = Bytes(lru, rest)
  BY <1>6, SpaceSame
<1>10. Bytes(lru, rest) \in Nat /\ KeyLen[k] \in Nat /\ lru.len[k] \in Nat
  BY <1>1, <1>5, SpaceFinite, LruAssumption
<1>11. c.nbytes = Bytes(c, ToSet(c.ll))
  <2>1. CASE Holds(k)
    <3>1. all = rest \cup {k}
      BY <2>1 DEF Holds
    <3>2. Bytes(lru, rest \cup {k}) = Bytes(lru, rest) + KeyLen[k] + lru.len[k]
      BY <1>1, <1>5, SpaceAdd
    <3>3. lru.nbytes = Bytes(lru, rest) + KeyLen[k] + lru.len[k]
      BY <1>1, <3>1, <3>2
    <3>4. c.nbytes = lru.nbytes + v + (-lru.len[k])
      BY <1>2, <2>1
    <3>5. c.nbytes = Bytes(lru, rest) + KeyLen[k] + v
      BY <1>10, <3>3, <3>4
    <3> QED
      BY <1>3, <1>8, <1>9, <1>10, <3>5
  <2>2. CASE ~Holds(k)
    <3>1. all = rest
      BY <2>2 DEF Holds
    <3>2. c.nbytes = lru.nbytes + v + KeyLen[k]
      BY <1>2, <2>2
    <3>3. lru.nbytes = Bytes(lru, rest)
      BY <1>1, <3>1
    <3>4. c.nbytes = Bytes(lru, rest) + KeyLen[k] + v
      BY <1>10, <3>2, <3>3
    <3> QED
      BY <1>3, <1>8, <1>9, <1>10, <3>4
  <2> QED
    BY <2>1, <2>2
<1> QED
  BY <1>2, <1>3, <1>11 DEF Sums, c

LruTypeOK == lru \in Caches /\ used \in Seq(Keys)

CountInv == /\ IsInjective(lru.ll)
            /\ lru.nbytes = Bytes(lru, ToSet(lru.ll))
            /\ ~Over(lru)

RecentInv == /\ IsInjective(used)
             /\ Len(lru.ll) <= Len(used)
             /\ \A i \in 1..Len(lru.ll) : lru.ll[i] = used[i]

LruInv == LruTypeOK /\ CountInv /\ RecentInv

LEMMA InitLru == LruInit => LruInv
<1> SUFFICES ASSUME LruInit PROVE LruInv
  OBVIOUS
<1>1. PICK max \in Limits : lru = NewCache(max)
  BY DEF LruInit
<1>2. max \in Nat
  BY LruAssumption
<1>3. /\ lru.ll = <<>> /\ lru.nbytes = 0 /\ lru.maxBytes = max /\ lru \in Caches
  BY <1>1, <1>2 DEF NewCache, Caches
<1>4. ToSet(lru.ll) = {}
  BY <1>3 DEF ToSet
<1>5. lru.nbytes = Bytes(lru, ToSet(lru.ll))
  BY <1>3, <1>4, NoSpace
<1>6. ~Over(lru)
  BY <1>2, <1>3 DEF Over
<1>7. used = <<>>
  BY DEF LruInit
<1> QED
  BY <1>3, <1>5, <1>6, <1>7 DEF LruInv, LruTypeOK, CountInv, RecentInv, IsInjective

\* What a step must leave behind for the invariant and the order of eviction.
LEMMA Moved ==
  ASSUME LruInv, NEW k \in Keys, NEW c, Sums(c), c.ll = MoveToFront(lru.ll, k),
         NEW i \in 0..Len(c.ll), lru' = RemoveOldest(c, i), ~Over(lru'),
         i < Len(c.ll) => Over(RemoveOldest(c, i + 1)),
         used' = MoveToFront(used, k)
  PROVE  LruInv' /\ ByLastUse
<1> DEFINE d == RemoveOldest(c, i)
           u == used'
<1>1. /\ lru.ll \in Seq(Keys) /\ IsInjective(lru.ll) /\ used \in Seq(Keys)
      /\ IsInjective(used) /\ Len(lru.ll) <= Len(used)
      /\ \A j \in 1..Len(lru.ll) : lru.ll[j] = used[j]
  BY DEF LruInv, LruTypeOK, CountInv, RecentInv, Caches
<1>2. Sums(d) /\ d.len = c.len /\ d.maxBytes = c.maxBytes
      /\ Len(d.ll) = i /\ \A j \in 1..i : d.ll[j] = c.ll[j]
  BY OldestGone
<1>3. u \in Seq(Keys) /\ IsInjective(u)
  BY <1>1, FrontList, FrontSet DEF Fronted
<1>4. Len(c.ll) <= Len(u) /\ \A j \in 1..Len(c.ll) : c.ll[j] = u[j]
  <2>1. /\ Len(MoveToFront(lru.ll, k)) <= Len(MoveToFront(used, k))
        /\ \A j \in 1..Len(MoveToFront(lru.ll, k)) :
              MoveToFront(lru.ll, k)[j] = MoveToFront(used, k)[j]
    BY <1>1, FrontAgree
  <2> QED
    BY <2>1
<1>5. c.ll \in Seq(Keys) /\ Len(c.ll) \in Nat /\ Len(u) \in Nat /\ Len(c.ll) > 0
  <2>1. c.ll \in Seq(Keys)
    BY DEF Sums, Caches
  <2>2. Len(c.ll) = IF k \in ToSet(lru.ll) THEN Len(lru.ll) ELSE Len(lru.ll) + 1
    <3>1. Len(MoveToFront(lru.ll, k)) =
             IF k \in ToSet(lru.ll) THEN Len(lru.ll) ELSE Len(lru.ll) + 1
      BY <1>1, FrontList DEF Fronted
    <3> QED
      BY <3>1
  <2>3. Len(lru.ll) \in Nat /\ (k \in ToSet(lru.ll) => Len(lru.ll) > 0)
    BY <1>1 DEF ToSet
  <2>4. Len(c.ll) > 0
    BY <2>2, <2>3
  <2> QED
    BY <1>3, <2>1, <2>4
<1>6. ToSet(c.ll) = ToSet(lru.ll) \cup {k}
  BY <1>1, FrontSet
<1>7. lru' = d
  OBVIOUS
<1> HIDE DEF d, u
<1>8. i <= Len(u) /\ \A j \in 1..i : d.ll[j] = u[j]
  BY <1>2, <1>4, <1>5
<1>9. LruTypeOK'
  BY <1>2, <1>3, <1>7 DEF LruTypeOK, Sums, Caches, u
<1>10. CountInv'
  BY <1>2, <1>7 DEF CountInv, Sums
<1>11. RecentInv'
  BY <1>2, <1>3, <1>7, <1>8 DEF RecentInv, u
<1>12. d.ll = SubSeq(u, 1, Len(d.ll))
  <2>1. d.ll \in Seq(Keys)
    BY <1>2 DEF Sums, Caches
  <2>2. SubSeq(u, 1, i) \in Seq(Keys) /\ Len(SubSeq(u, 1, i)) = i
        /\ \A j \in 1..i : SubSeq(u, 1, i)[j] = u[j]
    BY <1>3, <1>5, <1>8
  <2> QED
    BY <1>2, <1>8, <2>1, <2>2, SeqEqual
<1>13. ASSUME NEW m \in DOMAIN u, m = i + 1, m = 1 \/ Holds(u[m])
       PROVE  d.maxBytes # 0 /\ Bytes(d, {u[j] : j \in 1..m}) > d.maxBytes
  <2>1. i < Len(c.ll)
    <3> SUFFICES ASSUME i = Len(c.ll) PROVE FALSE
      BY <1>5
    <3>1. Holds(u[m])
      BY <1>5, <1>13
    <3>2. u[m] \in ToSet(c.ll)
      BY <1>6, <3>1 DEF Holds
    <3>3. PICK j \in 1..Len(c.ll) : u[m] = c.ll[j]
      BY <1>5, <3>2 DEF ToSet
    <3>4. j \in DOMAIN u /\ u[j] = u[m]
      BY <1>3, <1>4, <1>5, <3>3
    <3>5. j = m
      BY <1>3, <3>4 DEF IsInjective
    <3> QED
      BY <1>5, <1>13, <3>5
  <2> DEFINE e == RemoveOldest(c, m)
  <2>2. m \in 0..Len(c.ll) /\ m = i + 1
    BY <1>5, <1>13, <2>1
  <2>3. Sums(e) /\ e.len = c.len /\ e.maxBytes = c.maxBytes
        /\ Len(e.ll) = m /\ \A j \in 1..m : e.ll[j] = c.ll[j]
    BY <2>2, OldestGone
  <2>4. Over(e)
    BY <2>1, <2>2
  <2> HIDE DEF e
  <2>5. e.ll \in Seq(Keys) /\ e.nbytes = Bytes(e, ToSet(e.ll))
    BY <2>3 DEF Sums, Caches
  <2>6. ToSet(e.ll) = {u[j] : j \in 1..m}
    <3>1. \A j \in 1..m : e.ll[j] = u[j]
      BY <1>4, <1>5, <2>2, <2>3
    <3> QED
      BY <2>3, <2>5, <3>1 DEF ToSet
  <2>7. Bytes(e, ToSet(e.ll)) = Bytes(d, ToSet(e.ll))
    BY <1>2, <2>3, SpaceSame
  <2> QED
    BY <1>2, <2>3, <2>4, <2>5, <2>6, <2>7 DEF Over
<1>14. ByLastUse
  <2>1. lru'.ll = SubSeq(used', 1, Len(lru'.ll))
    BY <1>7, <1>12 DEF u
  <2>2. ASSUME NEW m \in DOMAIN used', m = Len(lru'.ll) + 1, m = 1 \/ Holds(used'[m])
        PROVE  (lru.maxBytes # 0 /\ Bytes(lru, Recent(m)) > lru.maxBytes)'
    <3>1. d.maxBytes # 0 /\ Bytes(d, {u[j] : j \in 1..m}) > d.maxBytes
      BY <1>2, <1>7, <1>13, <2>2 DEF u
    <3> QED
      BY <1>7, <3>1 DEF Recent, u
  <2> QED
    BY <2>1, <2>2 DEF ByLastUse
<1> QED
  BY <1>9, <1>10, <1>11, <1>14 DEF LruInv

\* The bytes of an entry are counted when it comes, when its length changes
\* and when it goes (Cache.Put).
LEMMA PutStep ==
  ASSUME LruInv, NEW k \in Keys, NEW v \in ValueLens, CachePut(k, v)
  PROVE  LruInv' /\ ByLastUse
<1> DEFINE c == Store(k, v)
<1>1. Sums(lru) /\ v \in Nat
  BY LruAssumption DEF LruInv, LruTypeOK, CountInv, Sums
<1>2. Sums(c) /\ c.ll = MoveToFront(lru.ll, k)
  BY <1>1, StoreSums
<1>3. lru' = Trim(c) /\ used' = MoveToFront(used, k)
  BY DEF CachePut
<1> HIDE DEF c
<1>4. PICK i \in 0..Len(c.ll) :
        /\ Trim(c) = RemoveOldest(c, i)
        /\ ~Over(Trim(c))
        /\ i < Len(c.ll) => Over(RemoveOldest(c, i + 1))
  BY <1>2, TrimEnds
<1>5. lru' = RemoveOldest(c, i) /\ ~Over(lru')
  BY <1>3, <1>4
<1> QED
  BY <1>2, <1>3, <1>4, <1>5, Moved

\* A hit changes the order and nothing else (Cache.Get).
LEMMA GetStep ==
  ASSUME LruInv, NEW k \in Keys, CacheGet(k)
  PROVE  LruInv' /\ ByLastUse
<1> DEFINE t == MoveToFront(lru.ll, k)
<1>1. /\ lru \in Caches /\ IsInjective(lru.ll) /\ ~Over(lru)
      /\ lru.nbytes = Bytes(lru, ToSet(lru.ll))
  BY DEF LruInv, LruTypeOK, CountInv
<1>2. lru.ll \in Seq(Keys) /\ k \in ToSet(lru.ll)
  BY <1>1 DEF Caches, CacheGet, Holds
<1>3. /\ t \in Seq(Keys) /\ IsInjective(t) /\ ToSet(t) = ToSet(lru.ll)
  <2>1. t \in Seq(Keys)
    BY <1>1, <1>2, FrontList DEF Fronted
  <2>2. IsInjective(t) /\ ToSet(t) = ToSet(lru.ll) \cup {k}
    BY <1>1, <1>2, FrontSet
  <2> HIDE DEF t
  <2> QED
    BY <1>2, <2>1, <2>2
<1>4. lru' = [lru EXCEPT !.ll = t] /\ used' = MoveToFront(used, k)
  BY DEF CacheGet, Hit
<1> HIDE DEF t
<1> DEFINE c == lru'
<1>5. /\ c.ll = t /\ c.len = lru.len /\ c.nbytes = lru.nbytes
      /\ c.maxBytes = lru.maxBytes /\ c \in Caches
  <2> DEFINE lists == Seq(Keys)
             lens == [Keys -> Nat]
  <2>1. lru \in [ll : lists, len : lens, nbytes : Int, maxBytes : Nat] /\ t \in lists
    BY <1>1, <1>3 DEF Caches
  <2> HIDE DEF lists, lens
  <2>2. c \in [ll : lists, len : lens, nbytes : Int, maxBytes : Nat]
    BY <1>4, <2>1
  <2>3. c.ll = t /\ c.len = lru.len /\ c.nbytes = lru.nbytes /\ c.maxBytes = lru.maxBytes
    BY <1>4, <2>1
  <2> HIDE DEF c
  <2> QED
    BY <2>2, <2>3 DEF Caches, lists, lens
<1> HIDE DEF c
<1>6. Bytes(c, ToSet(t)) = Bytes(lru, ToSet(t))
  BY <1>5, SpaceSame
<1>7. Sums(c) /\ ~Over(c)
  BY <1>1, <1>3, <1>5, <1>6 DEF Sums, Over
<1>8. c = RemoveOldest(c, Len(c.ll))
  <2>1. Oldest(c, Len(c.ll)) = {}
    BY <1>3, <1>5 DEF Oldest
  <2>2. Bytes(c, Oldest(c, Len(c.ll))) = 0
    BY <2>1, NoSpace
  <2>3. SubSeq(c.ll, 1, Len(c.ll)) = c.ll
    BY <1>3, <1>5
  <2>4. c.nbytes - Bytes(c, Oldest(c, Len(c.ll))) = c.nbytes
    BY <1>5, <2>2 DEF Caches
  <2> DEFINE a == SubSeq(c.ll, 1, Len(c.ll))
             b == c.nbytes - Bytes(c, Oldest(c, Len(c.ll)))
  <2>5. RemoveOldest(c, Len(c.ll)) = [c EXCEPT !.ll = a, !.nbytes = b]
    BY DEF RemoveOldest
  <2>6. a = c.ll /\ b = c.nbytes
    BY <2>3, <2>4
  <2> HIDE DEF a, b
  <2>7. [c EXCEPT !.ll = a, !.nbytes = b] = c
    BY <1>5, <2>6, SameFields DEF Caches
  <2> QED
    BY <2>5, <2>7
<1>9. Len(c.ll) \in 0..Len(c.ll)
  BY <1>3, <1>5
<1>10. lru' = c
  BY DEF c
<1> QED
  BY <1>3, <1>4, <1>5, <1>7, <1>8, <1>9, <1>10, Moved DEF t

LEMMA NextLru == LruInv /\ [LruNext]_lruVars => LruInv' /\ [ByLastUse]_lruVars
<1> SUFFICES ASSUME LruInv, [LruNext]_lruVars PROVE LruInv' /\ [ByLastUse]_lruVars
  OBVIOUS
<1>1. CASE LruNext
  BY <1>1, GetStep, PutStep DEF LruNext
<1>2. CASE UNCHANGED lruVars
  BY <1>2 DEF lruVars, LruInv, LruTypeOK, CountInv, RecentInv, Over
<1> QED
  BY <1>1, <1>2

\* For any keys, lengths and limit, in every sequence of gets and puts.
THEOREM LruInvariant == LruSpec => []LruInv
  BY InitLru, NextLru, PTL DEF LruSpec

\* The counter never drifts from what the entries take, so the limit holds and
\* the loop of Cache.Put ends.
THEOREM BytesCountedHolds == LruSpec => []BytesCounted
<1>1. LruInv => BytesCounted
  <2> SUFFICES ASSUME LruInv PROVE BytesCounted
    OBVIOUS
  <2>1. lru.maxBytes \in Nat /\ lru.nbytes \in Int
    BY DEF LruInv, LruTypeOK, Caches
  <2> QED
    BY <2>1 DEF LruInv, CountInv, Over, BytesCounted
<1> QED
  BY <1>1, LruInvariant, PTL

\* Entries go by last use, and none that had room (Cache.Get, Cache.Put).
THEOREM EvictsOldestHolds == LruSpec => EvictsOldest
  BY NextLru, LruInvariant, PTL DEF LruSpec, EvictsOldest

------------------------------------------------------------------------------
(* The router, for any parts, patterns and requests: the trie is what the  *)
(* routes begin with, each with its route, and a search of it finds the    *)
(* most exact route that matches.  insert and search are recursions over   *)
(* the length of a pattern and of a path; each is shown to be defined, by  *)
(* building it one length at a time, and then followed along its way.      *)

LEMMA MinIs ==
  ASSUME NEW S, S \subseteq Nat, S # {}
  PROVE  Min(S) \in S /\ \A g \in S : Min(S) <= g
<1>1. Least(S) \in S /\ \A g \in S : Least(S) <= g
  BY LeastIs
<1> HIDE DEF Least
<1>2. QED
  BY <1>1 DEF Min

\* Induction up to n, over a set.
LEMMA UpTo ==
  ASSUME NEW S, NEW m \in Nat, 0 \in S, \A k \in 1..m : k - 1 \in S => k \in S
  PROVE  \A k \in 0..m : k \in S
<1> DEFINE Lacks == {k \in 0..m : k \notin S}
<1>1. SUFFICES ASSUME Lacks # {} PROVE FALSE
  OBVIOUS
<1>2. Min(Lacks) \in Lacks /\ \A i \in Lacks : Min(Lacks) <= i
  <2>1. Lacks \subseteq Nat
    OBVIOUS
  <2> HIDE DEF Lacks
  <2>2. QED
    BY <1>1, <2>1, MinIs
<1> DEFINE k == Min(Lacks)
<1> HIDE DEF k
<1>3. k \in 0..m /\ k \notin S /\ \A i \in 0..m : i \notin S => k <= i
  BY <1>2 DEF k
<1>4. k \in 1..m /\ k - 1 \in 0..m
  BY <1>3
<1>5. QED
  BY <1>3, <1>4

\* The walk of insert down the trie exists.
LEMMA InsertWalk ==
  ASSUME NEW t, NEW q, Len(q) \in Nat
  PROVE  \E down :
            /\ down[0] = [trie |-> t, path |-> <<>>]
            /\ \A h \in 1..Len(q) : down[h] = Descend(down[h - 1], q[h])
            /\ insert(t, q) = [down[Len(q)].trie EXCEPT ![down[Len(q)].path].pattern = q]
<1> DEFINE Is(m, g) == g = [h \in 0..m |-> IF h = 0 THEN [trie |-> t, path |-> <<>>]
                                           ELSE Descend(g[h - 1], q[h])]
           Has == {m \in 0..Len(q) : \E g : Is(m, g)}
<1>1. 0 \in Has
  <2>1. Is(0, [h \in 0..0 |-> [trie |-> t, path |-> <<>>]])
    OBVIOUS
  <2> HIDE DEF Is
  <2>2. QED
    BY <2>1
<1>2. ASSUME NEW m \in 1..Len(q), m - 1 \in Has
      PROVE  m \in Has
  <2>1. PICK g : Is(m - 1, g)
    BY <1>2
  <2> DEFINE f == [h \in 0..m |-> IF h = m THEN Descend(g[m - 1], q[m]) ELSE g[h]]
  <2>2. ASSUME NEW h \in 0..m
        PROVE  f[h] = IF h = 0 THEN [trie |-> t, path |-> <<>>]
                      ELSE Descend(f[h - 1], q[h])
    <3>1. CASE h = m
      BY <3>1
    <3>2. CASE h # m
      <4>1. h \in 0..m - 1 /\ f[h] = g[h] /\ (h # 0 => f[h - 1] = g[h - 1])
        BY <3>2
      <4>2. QED
        BY <2>1, <4>1
    <3>3. QED
      BY <3>1, <3>2
  <2>3. f = [h \in 0..m |-> f[h]]
    OBVIOUS
  <2> HIDE DEF f
  <2>4. Is(m, f)
    BY <2>2, <2>3
  <2>5. QED
    BY <2>4
<1>3. Len(q) \in Has
  <2> HIDE DEF Has
  <2>1. \A m \in 0..Len(q) : m \in Has
    BY <1>1, <1>2, UpTo
  <2>2. QED
    BY <2>1
<1>4. PICK g : Is(Len(q), g)
  BY <1>3
<1> DEFINE d == CHOOSE g1 : Is(Len(q), g1)
<1>5. Is(Len(q), d)
  BY <1>4
<1>6. insert(t, q) = [d[Len(q)].trie EXCEPT ![d[Len(q)].path].pattern = q]
  BY DEF insert
<1> HIDE DEF d
<1>7. d[0] = [trie |-> t, path |-> <<>>]
  BY <1>5
<1>8. \A h \in 1..Len(q) : d[h] = Descend(d[h - 1], q[h])
  BY <1>5
<1>9. QED
  BY <1>6, <1>7, <1>8

\* A node is on the way of a route.
Begins(v, p) == Len(v) <= Len(p) /\ \A i \in 1..Len(v) : v[i] = p[i]

NodeRecords == [pattern : Seq(Parts) \cup {NoRoute}, children : Seq(Parts)]

\* The children of a node are the nodes one part longer.  They differ, and only
\* the last may be a wildcard: after one, every part matches and none is added.
Kids(t, v) ==
    /\ \A c \in Parts :
           Append(v, c) \in DOMAIN t <=> \E i \in DOMAIN t[v].children : t[v].children[i] = c
    /\ \A i, j \in DOMAIN t[v].children :
           i < j => t[v].children[i] \notin Wild /\ t[v].children[i] # t[v].children[j]

\* What holds of the trie in whatever order the routes are registered.
Tree(t) ==
    /\ t \in [DOMAIN t -> NodeRecords]
    /\ DOMAIN t \subseteq Seq(Parts)
    /\ <<>> \in DOMAIN t
    /\ \A v \in Seq(Parts), c \in Parts : Append(v, c) \in DOMAIN t => v \in DOMAIN t
    /\ \A v \in DOMAIN t : Kids(t, v)

\* The children that match are nodes, one part further down.
LEMMA MatchIs ==
  ASSUME NEW t, Tree(t), NEW v \in DOMAIN t, NEW part,
         NEW i \in matchChildren(t, v, part)
  PROVE  /\ v \in Seq(Parts) /\ t[v].children \in Seq(Parts)
         /\ i \in 1..Len(t[v].children)
         /\ t[v].children[i] \in Parts
         /\ t[v].children[i] \in Wild \cup {part}
         /\ Append(v, t[v].children[i]) \in DOMAIN t
         /\ Append(v, t[v].children[i]) \in Seq(Parts)
         /\ Len(Append(v, t[v].children[i])) = Len(v) + 1
<1>1. v \in Seq(Parts) /\ t[v] \in NodeRecords
  BY DEF Tree
<1>2. t[v].children \in Seq(Parts)
  BY <1>1 DEF NodeRecords
<1>3. i \in 1..Len(t[v].children) /\ t[v].children[i] \in Wild \cup {part}
  BY <1>2 DEF matchChildren
<1>4. t[v].children[i] \in Parts
  BY <1>2, <1>3
<1>5. Kids(t, v)
  BY DEF Tree
<1>6. Append(v, t[v].children[i]) \in DOMAIN t
  BY <1>2, <1>3, <1>4, <1>5 DEF Kids
<1>7. QED
  BY <1>1, <1>2, <1>3, <1>4, <1>6, Longer

LEMMA MatchNat ==
  ASSUME NEW t, Tree(t), NEW v \in DOMAIN t, NEW part
  PROVE  matchChildren(t, v, part) \subseteq Nat
  BY MatchIs

\* The recursion of search: the nodes that it is defined for, the two cases in
\* which it ends, and the answers of the children.
Reach(t, parts) == {u \in DOMAIN t : Len(u) <= Len(parts)}

Stops(parts, v) == Len(v) = Len(parts) \/ (v # <<>> /\ Last(v) \in Star)

Answers(t, parts, g, v) ==
    [i \in matchChildren(t, v, parts[Len(v) + 1]) |-> g[Append(v, t[v].children[i])]]

Answer(t, parts, g, v) ==
    IF Stops(parts, v) THEN t[v].pattern ELSE FirstOf(Answers(t, parts, g, v))

\* What search finds at a node depends on the nodes one further down.
LEMMA AnswerSame ==
  ASSUME NEW t, Tree(t), NEW parts \in Seq(Parts), NEW v \in Reach(t, parts), NEW f, NEW g,
         \A u \in Reach(t, parts) : Len(u) = Len(v) + 1 => f[u] = g[u]
  PROVE  Answer(t, parts, f, v) = Answer(t, parts, g, v)
<1>1. CASE Stops(parts, v)
  BY <1>1 DEF Answer
<1>2. CASE ~Stops(parts, v)
  <2>1. v \in DOMAIN t /\ Len(v) <= Len(parts) /\ v \in Seq(Parts)
    BY DEF Reach, Tree
  <2>2. Len(v) + 1 <= Len(parts)
    BY <1>2, <2>1 DEF Stops
  <2>3. ASSUME NEW i \in matchChildren(t, v, parts[Len(v) + 1])
        PROVE  f[Append(v, t[v].children[i])] = g[Append(v, t[v].children[i])]
    <3>1. /\ Append(v, t[v].children[i]) \in DOMAIN t
          /\ Len(Append(v, t[v].children[i])) = Len(v) + 1
      BY <2>1, MatchIs
    <3>2. QED
      BY <2>2, <3>1 DEF Reach
  <2>4. Answers(t, parts, f, v) = Answers(t, parts, g, v)
    BY <2>3 DEF Answers
  <2>5. QED
    BY <2>4 DEF Answer
<1>3. QED
  BY <1>1, <1>2

\* The search exists, from the longest nodes up, and is what its rule says.
LEMMA SearchWalk ==
  ASSUME NEW t, Tree(t), NEW parts \in Seq(Parts)
  PROVE  \E below : /\ search(t, parts) = below[<<>>]
                    /\ \A v \in Reach(t, parts) : below[v] = Answer(t, parts, below, v)
<1> DEFINE Level(m) == {u \in Reach(t, parts) : Len(parts) - m <= Len(u)}
           Is(m, g) == g = [v \in Level(m) |-> Answer(t, parts, g, v)]
           Has == {m \in 0..Len(parts) : \E g : Is(m, g)}
<1>1. \A u \in Reach(t, parts) : Len(u) \in 0..Len(parts)
  BY DEF Reach, Tree
<1>2. ASSUME NEW m \in 0..Len(parts), NEW g, m # 0 => Is(m - 1, g)
      PROVE  m \in Has
  <2> DEFINE f == [v \in Level(m) |-> IF m # 0 /\ v \in Level(m - 1) THEN g[v]
                                      ELSE Answer(t, parts, g, v)]
  <2>1. ASSUME NEW v \in Level(m)
        PROVE  f[v] = Answer(t, parts, f, v)
    <3>1. v \in Reach(t, parts) /\ Len(v) \in Nat /\ Len(parts) - m <= Len(v)
      BY <1>1
    <3>2. f[v] = Answer(t, parts, g, v)
      <4>1. m # 0 /\ v \in Level(m - 1) => g[v] = Answer(t, parts, g, v)
        <5> HIDE DEF Level
        <5>1. QED
          BY <1>2
      <4>2. QED
        BY <4>1
    <3>3. ASSUME NEW u \in Reach(t, parts), Len(u) = Len(v) + 1
          PROVE  f[u] = g[u]
      <4>1. Len(u) <= Len(parts) /\ Len(u) \in Nat /\ Len(parts) \in Nat
        BY <1>1
      <4>2. m # 0
        BY <3>1, <3>3, <4>1
      <4>3. u \in Level(m) /\ u \in Level(m - 1)
        BY <3>1, <3>3, <4>1
      <4> HIDE DEF Level
      <4>4. QED
        BY <4>2, <4>3
    <3> HIDE DEF f
    <3>4. Answer(t, parts, f, v) = Answer(t, parts, g, v)
      BY <3>1, <3>3, AnswerSame
    <3>5. QED
      BY <3>2, <3>4
  <2>2. f = [v \in Level(m) |-> f[v]]
    OBVIOUS
  <2> HIDE DEF f, Level
  <2>3. Is(m, f)
    BY <2>1, <2>2
  <2> HIDE DEF Is
  <2>4. QED
    BY <2>3
<1>3. Len(parts) \in Has
  <2>1. 0 \in Has
    <3>1. 0 \in 0..Len(parts)
      OBVIOUS
    <3> HIDE DEF Has, Is
    <3>2. QED
      BY <1>2, <3>1
  <2>2. \A m \in 1..Len(parts) : m - 1 \in Has => m \in Has
    <3> HIDE DEF Is
    <3>1. QED
      BY <1>2
  <2> HIDE DEF Has
  <2>3. \A m \in 0..Len(parts) : m \in Has
    <3>1. Len(parts) \in Nat
      OBVIOUS
    <3>2. QED
      BY <2>1, <2>2, <3>1, UpTo
  <2>4. QED
    BY <2>3
<1>4. Level(Len(parts)) = Reach(t, parts)
  BY <1>1
<1> DEFINE Whole(g) == g = [v \in Reach(t, parts) |-> Answer(t, parts, g, v)]
           b == CHOOSE g : Whole(g)
<1>5. Whole(b)
  <2>1. PICK g : Is(Len(parts), g)
    BY <1>3
  <2>2. Whole(g)
    BY <1>4, <2>1
  <2> HIDE DEF Whole
  <2>3. QED
    BY <2>2
<1>6. search(t, parts) = b[<<>>]
  BY DEF search, Reach, Answer, Answers, Stops
<1> HIDE DEF b
<1>7. \A v \in Reach(t, parts) : b[v] = Answer(t, parts, b, v)
  BY <1>5
<1>8. QED
  BY <1>6, <1>7

\* A node more, and one child more of its parent.
LEMMA GrownIs ==
  ASSUME NEW t, t \in [DOMAIN t -> NodeRecords], NEW path \in DOMAIN t, NEW part \in Parts,
         Append(path, part) \notin DOMAIN t
  PROVE  LET T == Grown(t, path, part)
             new == Append(path, part)
         IN  /\ DOMAIN T = DOMAIN t \cup {new}
             /\ T \in [DOMAIN t \cup {new} -> NodeRecords]
             /\ T[path].children = Append(t[path].children, part)
             /\ T[path].pattern = t[path].pattern
             /\ T[new] = Node
             /\ \A u \in DOMAIN t \ {path} : T[u] = t[u]
<1> DEFINE T == Grown(t, path, part)
           new == Append(path, part)
<1>1. DOMAIN T = DOMAIN t \cup {new} /\ T[new] = Node /\ \A u \in DOMAIN t \ {path} : T[u] = t[u]
  BY DEF Grown
<1>2. t[path] \in NodeRecords
  OBVIOUS
<1>3. T[path] = [t[path] EXCEPT !.children = Append(@, part)]
  BY DEF Grown
<1>4. /\ T[path].children = Append(t[path].children, part)
      /\ T[path].pattern = t[path].pattern /\ T[path] \in NodeRecords
  <2>1. Append(t[path].children, part) \in Seq(Parts)
    BY <1>2, Longer DEF NodeRecords
  <2>2. QED
    BY <1>2, <1>3, <2>1 DEF NodeRecords
<1>5. Node \in NodeRecords
  <2>1. <<>> \in Seq(Parts)
    OBVIOUS
  <2>2. QED
    BY <2>1 DEF Node, NodeRecords
<1>6. T = [u \in DOMAIN t \cup {new} |-> T[u]]
  BY DEF Grown
<1> HIDE DEF T, NodeRecords, Node
<1>7. T \in [DOMAIN t \cup {new} -> NodeRecords]
  BY <1>1, <1>4, <1>5, <1>6
<1>8. QED
  BY <1>1, <1>4, <1>7 DEF T

\* One step of insert leaves a tree, goes one part further down, through the
\* part itself or a wildcard that was there, and adds at most the node it ends at.
LEMMA DescendTree ==
  ASSUME NEW at, Tree(at.trie), at.path \in DOMAIN at.trie, NEW part \in Parts
  PROVE  LET d == Descend(at, part)
         IN  /\ Tree(d.trie)
             /\ \E c \in Wild \cup {part} :
                   /\ d.path = Append(at.path, c)
                   /\ c # part => d.path \in DOMAIN at.trie
             /\ DOMAIN d.trie = DOMAIN at.trie \cup {d.path}
             /\ \A v \in DOMAIN at.trie : d.trie[v].pattern = at.trie[v].pattern
             /\ d.path \notin DOMAIN at.trie => d.trie[d.path].pattern = NoRoute
<1> DEFINE t == at.trie
           v == at.path
           kids == t[v].children
           found == matchChildren(t, v, part)
           d == Descend(at, part)
<1>1. found \subseteq Nat
  BY MatchNat
<1>2. CASE found # {}
  <2> DEFINE c == kids[Min(found)]
  <2>1. d.trie = t /\ d.path = Append(v, c)
    BY <1>2 DEF Descend
  <2>2. Min(found) \in found
    <3> HIDE DEF found
    <3>1. QED
      BY <1>1, <1>2, MinIs
  <2>3. c \in Wild \cup {part} /\ Append(v, c) \in DOMAIN t
    <3> DEFINE i == Min(found)
    <3> HIDE DEF i
    <3>1. kids[i] \in Wild \cup {part} /\ Append(v, kids[i]) \in DOMAIN t
      BY <2>2, MatchIs DEF i
    <3>2. QED
      BY <3>1 DEF i
  <2> HIDE DEF c, d
  <2>4. QED
    BY <2>1, <2>3 DEF d
<1>3. CASE found = {}
  <2> DEFINE new == Append(v, part)
             more == Append(kids, part)
             T == Grown(t, v, part)
  <2>1. d.path = new /\ d.trie = T
    BY <1>3 DEF Descend
  <2>2. /\ t \in [DOMAIN t -> NodeRecords] /\ v \in Seq(Parts) /\ kids \in Seq(Parts)
        /\ Kids(t, v)
    BY DEF Tree, NodeRecords
  <2>3. \A i \in DOMAIN kids : kids[i] \notin Wild \cup {part}
    BY <1>3 DEF matchChildren
  <2>4. new \notin DOMAIN t /\ new \in Seq(Parts) /\ Len(new) = Len(v) + 1
    BY <2>2, <2>3, Longer DEF Kids
  <2>5. /\ more \in Seq(Parts) /\ Len(more) = Len(kids) + 1
        /\ \A i \in 1..Len(kids) : more[i] = kids[i]
        /\ more[Len(kids) + 1] = part
    BY <2>2, Longer
  <2>6. /\ DOMAIN T = DOMAIN t \cup {new}
        /\ T \in [DOMAIN t \cup {new} -> NodeRecords]
        /\ T[v].children = more
        /\ T[v].pattern = t[v].pattern
        /\ T[new] = Node
        /\ \A u \in DOMAIN t \ {v} : T[u] = t[u]
    <3>1. v \in DOMAIN t
      OBVIOUS
    <3>2. QED
      BY <2>2, <2>4, <3>1, GrownIs
  <2> HIDE DEF T, more, kids, new, v, t
  <2>7. Tree(T)
    <3>0. Tree(t) /\ v \in DOMAIN t
      BY DEF t, v
    <3>1. \A u \in Seq(Parts), c \in Parts : Append(u, c) = new <=> u = v /\ c = part
      BY <2>2, AppendInjective DEF new
    <3>2. Kids(T, v)
      <4>1. ASSUME NEW c \in Parts
            PROVE  Append(v, c) \in DOMAIN T <=> \E i \in DOMAIN T[v].children : T[v].children[i] = c
        <5>1. DOMAIN kids = 1..Len(kids) /\ DOMAIN more = 1..Len(kids) + 1
          BY <2>2, <2>5
        <5>2. Append(v, c) \in DOMAIN t <=> \E i \in DOMAIN kids : kids[i] = c
          BY <2>2 DEF Kids, kids
        <5>3. Append(v, c) \in DOMAIN T <=> Append(v, c) \in DOMAIN t \/ c = part
          BY <2>2, <2>6, <3>1
        <5>4. (\E i \in DOMAIN more : more[i] = c) <=> (\E i \in DOMAIN kids : kids[i] = c) \/ c = part
          <6>1. Len(kids) \in Nat
            BY <2>2
          <6>2. QED
            BY <2>5, <5>1, <6>1
        <5>5. QED
          BY <2>6, <5>2, <5>3, <5>4
      <4>2. ASSUME NEW i \in DOMAIN T[v].children, NEW j \in DOMAIN T[v].children, i < j
            PROVE  T[v].children[i] \notin Wild /\ T[v].children[i] # T[v].children[j]
        <5>1. DOMAIN kids = 1..Len(kids) /\ DOMAIN more = 1..Len(kids) + 1 /\ Len(kids) \in Nat
          BY <2>2, <2>5
        <5>2. i \in 1..Len(kids) /\ more[i] = kids[i] /\ j \in 1..Len(kids) + 1
          BY <2>5, <2>6, <4>2, <5>1
        <5>3. CASE j \in 1..Len(kids)
          <6>1. kids[i] \notin Wild /\ kids[i] # kids[j]
            BY <2>2, <4>2, <5>1, <5>2, <5>3 DEF Kids, kids
          <6>2. QED
            BY <2>5, <2>6, <5>2, <5>3, <6>1
        <5>4. CASE j = Len(kids) + 1
          BY <2>3, <2>5, <2>6, <5>1, <5>2, <5>4
        <5>5. QED
          BY <5>1, <5>2, <5>3, <5>4
      <4>3. QED
        BY <4>1, <4>2 DEF Kids
    <3>3. Kids(T, new)
      <4>1. T[new].children = <<>> /\ DOMAIN T[new].children = {}
        BY <2>6 DEF Node
      <4>2. ASSUME NEW c \in Parts
            PROVE  Append(new, c) \notin DOMAIN T
        <5>1. Append(new, c) \notin DOMAIN t
          BY <2>4, <3>0 DEF Tree
        <5>2. Append(new, c) # new
          <6>1. Len(Append(new, c)) = Len(new) + 1 /\ Len(new) \in Nat
            BY <2>4, Longer
          <6>2. QED
            BY <6>1
        <5>3. QED
          BY <2>6, <5>1, <5>2
      <4>3. QED
        BY <4>1, <4>2 DEF Kids
    <3>4. ASSUME NEW u \in DOMAIN t, u # v
          PROVE  Kids(T, u)
      <4>1. u \in Seq(Parts) /\ Kids(t, u) /\ T[u] = t[u]
        BY <2>6, <3>0, <3>4 DEF Tree
      <4>2. \A c \in Parts : Append(u, c) \in DOMAIN T <=> Append(u, c) \in DOMAIN t
        BY <2>6, <3>1, <3>4, <4>1
      <4>3. QED
        BY <4>1, <4>2 DEF Kids
    <3>5. \A u \in Seq(Parts), c \in Parts : Append(u, c) \in DOMAIN T => u \in DOMAIN T
      BY <2>6, <3>0, <3>1 DEF Tree
    <3>6. DOMAIN T \subseteq Seq(Parts) /\ <<>> \in DOMAIN T
      BY <2>4, <2>6, <3>0 DEF Tree
    <3>7. QED
      BY <2>6, <3>2, <3>3, <3>4, <3>5, <3>6 DEF Tree
  <2>8. \A u \in DOMAIN t : T[u].pattern = t[u].pattern
    BY <2>6
  <2>9. T[new].pattern = NoRoute
    BY <2>6 DEF Node
  <2> HIDE DEF d
  <2>10. QED
    BY <2>1, <2>6, <2>7, <2>8, <2>9 DEF d, new, v, t
<1>4. QED
  BY <1>2, <1>3

\* Only the last part of a parsed pattern has a star.
Clean(v) == \A i \in 1..Len(v) : v[i] \in Star => i = Len(v)

LEMMA ParseIs ==
  ASSUME NEW p \in Seq(Parts)
  PROVE  parsePattern(p) \in Seq(Parts) /\ Clean(parsePattern(p))
<1> DEFINE Stars == {i \in DOMAIN p : p[i] \in Star}
           m == Min(Stars)
<1>1. CASE Stars = {}
  BY <1>1 DEF parsePattern, Clean
<1>2. CASE Stars # {}
  <2>1. Stars \subseteq Nat
    OBVIOUS
  <2>2. m \in Stars /\ \A i \in Stars : m <= i
    <3> HIDE DEF Stars
    <3>1. QED
      BY <1>2, <2>1, MinIs
  <2>3. parsePattern(p) = SubSeq(p, 1, m)
    BY <1>2 DEF parsePattern
  <2> HIDE DEF m
  <2>4. m \in 1..Len(p) /\ \A i \in 1..Len(p) : p[i] \in Star => m <= i
    BY <2>2
  <2>5. /\ SubSeq(p, 1, m) \in Seq(Parts) /\ Len(SubSeq(p, 1, m)) = m
        /\ \A i \in 1..m : SubSeq(p, 1, m)[i] = p[i]
    BY <2>4, SubSeqProperties
  <2>6. Clean(SubSeq(p, 1, m))
    BY <2>4, <2>5 DEF Clean
  <2>7. QED
    BY <2>3, <2>5, <2>6
<1>3. QED
  BY <1>1, <1>2

\* What begins a sequence is determined by its length.
LEMMA BeginsOne ==
  ASSUME NEW p \in Seq(Parts), NEW u \in Seq(Parts), NEW v \in Seq(Parts),
         Begins(u, p), Begins(v, p), Len(u) = Len(v)
  PROVE  u = v
<1>1. \A i \in 1..Len(u) : u[i] = v[i]
  BY DEF Begins
<1> QED
  BY <1>1, SeqEqual

LEMMA BeginsAll ==
  ASSUME NEW p \in Seq(Parts), NEW v \in Seq(Parts), Begins(v, p), Len(v) = Len(p)
  PROVE  v = p
<1>1. Begins(p, p)
  BY DEF Begins
<1> QED
  BY <1>1, BeginsOne

LEMMA BeginsNext ==
  ASSUME NEW p \in Seq(Parts), NEW v \in Seq(Parts), NEW c \in Parts
  PROVE  Begins(Append(v, c), p) <=> Begins(v, p) /\ Len(v) < Len(p) /\ p[Len(v) + 1] = c
<1> DEFINE w == Append(v, c)
<1>1. /\ w \in Seq(Parts) /\ Len(w) = Len(v) + 1 /\ w[Len(v) + 1] = c
      /\ \A i \in 1..Len(v) : w[i] = v[i]
  BY Longer
<1>2. Len(v) \in Nat /\ Len(p) \in Nat
  OBVIOUS
<1> HIDE DEF w
<1>3. Begins(w, p) => Begins(v, p) /\ Len(v) < Len(p) /\ p[Len(v) + 1] = c
  BY <1>1, <1>2 DEF Begins
<1>4. Begins(v, p) /\ Len(v) < Len(p) /\ p[Len(v) + 1] = c => Begins(w, p)
  <2>1. SUFFICES ASSUME Begins(v, p), Len(v) < Len(p), p[Len(v) + 1] = c, NEW i \in 1..Len(w)
                 PROVE  w[i] = p[i]
    BY <1>1, <1>2 DEF Begins
  <2>2. i \in 1..Len(v) \/ i = Len(v) + 1
    BY <1>1, <1>2
  <2>3. QED
    BY <1>1, <2>1, <2>2 DEF Begins
<1>5. QED
  BY <1>3, <1>4 DEF w

LEMMA BeginsSub ==
  ASSUME NEW p \in Seq(Parts), NEW v \in Seq(Parts), Begins(v, p)
  PROVE  SubSeq(p, 1, Len(v)) = v
<1>1. Len(v) \in Nat /\ Len(v) <= Len(p)
  BY DEF Begins
<1>2. /\ SubSeq(p, 1, Len(v)) \in Seq(Parts) /\ Len(SubSeq(p, 1, Len(v))) = Len(v)
      /\ \A i \in 1..Len(v) : SubSeq(p, 1, Len(v))[i] = p[i]
  BY <1>1, SubSeqProperties
<1>3. \A i \in 1..Len(v) : SubSeq(p, 1, Len(v))[i] = v[i]
  BY <1>2 DEF Begins
<1> QED
  BY <1>2, <1>3, SeqEqual

\* Nothing on the way of q goes through a wildcard that q does not have.
Unhindered(t, q) ==
    \A v \in Seq(Parts), c \in Wild :
        Begins(v, q) /\ Len(v) < Len(q) /\ Append(v, c) \in DOMAIN t => c = q[Len(v) + 1]

\* Where insert is after h parts of q.
Walked(t, q, h, d) ==
    /\ Tree(d.trie) /\ d.path \in DOMAIN d.trie /\ Len(d.path) = h
    /\ Unhindered(t, q) =>
        /\ Begins(d.path, q)
        /\ DOMAIN d.trie = DOMAIN t \cup {v \in Seq(Parts) : Begins(v, q) /\ Len(v) <= h}
        /\ \A v \in DOMAIN d.trie :
              d.trie[v].pattern = IF v \in DOMAIN t THEN t[v].pattern ELSE NoRoute

\* One part further.
LEMMA WalkOn ==
  ASSUME NEW t, NEW q \in Seq(Parts), NEW h \in 0..Len(q) - 1, NEW d, Walked(t, q, h, d)
  PROVE  Walked(t, q, h + 1, Descend(d, q[h + 1]))
<1> DEFINE part == q[h + 1]
           e == Descend(d, part)
<1>1. part \in Parts
  OBVIOUS
<1>2. PICK c \in Wild \cup {part} :
          /\ e.path = Append(d.path, c)
          /\ c # part => e.path \in DOMAIN d.trie
  BY <1>1, DescendTree DEF Walked
<1>3. /\ Tree(e.trie)
      /\ DOMAIN e.trie = DOMAIN d.trie \cup {e.path}
      /\ \A v \in DOMAIN d.trie : e.trie[v].pattern = d.trie[v].pattern
      /\ e.path \notin DOMAIN d.trie => e.trie[e.path].pattern = NoRoute
  BY <1>1, DescendTree DEF Walked
<1>4. d.path \in Seq(Parts) /\ Len(d.path) = h /\ h \in Nat
  BY DEF Walked, Tree
<1>5. c \in Parts
  BY <1>1 DEF Parts
<1>6. e.path \in Seq(Parts) /\ Len(e.path) = h + 1
  BY <1>2, <1>4, <1>5, Longer
<1> HIDE DEF e
<1>7. ASSUME Unhindered(t, q)
      PROVE  /\ Begins(e.path, q)
             /\ DOMAIN e.trie = DOMAIN t \cup {v \in Seq(Parts) : Begins(v, q) /\ Len(v) <= h + 1}
             /\ \A v \in DOMAIN e.trie :
                   e.trie[v].pattern = IF v \in DOMAIN t THEN t[v].pattern ELSE NoRoute
  <2>1. /\ Begins(d.path, q)
        /\ DOMAIN d.trie = DOMAIN t \cup {v \in Seq(Parts) : Begins(v, q) /\ Len(v) <= h}
        /\ \A v \in DOMAIN d.trie :
              d.trie[v].pattern = IF v \in DOMAIN t THEN t[v].pattern ELSE NoRoute
    BY <1>7 DEF Walked
  <2>2. c = part
    <3>1. SUFFICES ASSUME c # part PROVE FALSE
      OBVIOUS
    <3>2. e.path \in DOMAIN t
      BY <1>2, <1>6, <1>4, <2>1, <3>1
    <3>3. QED
      BY <1>2, <1>4, <1>7, <2>1, <3>1, <3>2 DEF Unhindered
  <2>3. Begins(e.path, q)
    BY <1>1, <1>2, <1>4, <2>1, <2>2, BeginsNext
  <2>4. ASSUME NEW v \in Seq(Parts), Begins(v, q)
        PROVE  Len(v) <= h + 1 <=> Len(v) <= h \/ v = e.path
    <3>1. Len(v) = h + 1 => v = e.path
      BY <1>6, <2>3, <2>4, BeginsOne
    <3>2. Len(v) \in Nat
      OBVIOUS
    <3>3. QED
      BY <1>4, <1>6, <3>1, <3>2
  <2>5. DOMAIN e.trie = DOMAIN t \cup {v \in Seq(Parts) : Begins(v, q) /\ Len(v) <= h + 1}
    BY <1>3, <1>6, <2>1, <2>3, <2>4
  <2>6. ASSUME NEW v \in DOMAIN e.trie
        PROVE  e.trie[v].pattern = IF v \in DOMAIN t THEN t[v].pattern ELSE NoRoute
    <3>1. CASE v \in DOMAIN d.trie
      BY <1>3, <2>1, <3>1
    <3>2. CASE v \notin DOMAIN d.trie
      <4>1. v = e.path /\ v \notin DOMAIN t
        BY <1>3, <2>1, <3>2
      <4>2. QED
        BY <1>3, <3>2, <4>1
    <3>3. QED
      BY <3>1, <3>2
  <2>7. QED
    BY <2>3, <2>5, <2>6
<1>8. Walked(t, q, h + 1, e)
  <2>1. e.path \in DOMAIN e.trie
    BY <1>3
  <2>2. QED
    BY <1>3, <1>6, <1>7, <2>1 DEF Walked
<1>9. QED
  BY <1>8 DEF e

\* What insert makes of a tree.
LEMMA InsertIs ==
  ASSUME NEW t, Tree(t), NEW q \in Seq(Parts)
  PROVE  /\ Tree(insert(t, q))
         /\ Unhindered(t, q) =>
               /\ DOMAIN insert(t, q) = DOMAIN t \cup {v \in Seq(Parts) : Begins(v, q)}
               /\ \A v \in DOMAIN insert(t, q) :
                     insert(t, q)[v].pattern = IF v = q THEN q
                                               ELSE IF v \in DOMAIN t THEN t[v].pattern
                                               ELSE NoRoute
<1>1. PICK down :
          /\ down[0] = [trie |-> t, path |-> <<>>]
          /\ \A h \in 1..Len(q) : down[h] = Descend(down[h - 1], q[h])
          /\ insert(t, q) = [down[Len(q)].trie EXCEPT ![down[Len(q)].path].pattern = q]
  <2>1. Len(q) \in Nat
    OBVIOUS
  <2>2. QED
    BY <2>1, InsertWalk, Zenon
<1>2. Walked(t, q, Len(q), down[Len(q)])
  <2> DEFINE S == {h \in 0..Len(q) : Walked(t, q, h, down[h])}
  <2>1. 0 \in S
    <3> DEFINE d == [trie |-> t, path |-> <<>>]
    <3>1. d.trie = t /\ d.path = <<>>
      OBVIOUS
    <3>2. Begins(<<>>, q) /\ Len(<<>>) = 0
      BY DEF Begins
    <3>3. \A v \in Seq(Parts) : Len(v) <= 0 => v = <<>>
      OBVIOUS
    <3>4. <<>> \in DOMAIN t /\ <<>> \in Seq(Parts)
      BY DEF Tree
    <3> HIDE DEF d
    <3>5. {v \in Seq(Parts) : Begins(v, q) /\ Len(v) <= 0} = {<<>>}
      <4>1. \A v \in Seq(Parts) : Begins(v, q) /\ Len(v) <= 0 <=> v = <<>>
        BY <3>2, <3>3
      <4>2. QED
        BY <3>4, <4>1
    <3>6. DOMAIN d.trie = DOMAIN t \cup {v \in Seq(Parts) : Begins(v, q) /\ Len(v) <= 0}
      BY <3>1, <3>4, <3>5
    <3>7. Walked(t, q, 0, d)
      BY <3>1, <3>2, <3>4, <3>6 DEF Walked
    <3>8. QED
      BY <1>1, <3>7 DEF d
  <2>2. ASSUME NEW h \in 1..Len(q), h - 1 \in S
        PROVE  h \in S
    <3>1. Walked(t, q, h - 1, down[h - 1]) /\ h - 1 \in 0..Len(q) - 1 /\ (h - 1) + 1 = h
      BY <2>2
    <3>2. Walked(t, q, (h - 1) + 1, Descend(down[h - 1], q[(h - 1) + 1]))
      BY <3>1, WalkOn
    <3>3. Walked(t, q, h, Descend(down[h - 1], q[h]))
      BY <3>1, <3>2
    <3>4. QED
      BY <1>1, <3>3
  <2> HIDE DEF S
  <2>3. \A h \in 0..Len(q) : h \in S
    <3>1. Len(q) \in Nat
      OBVIOUS
    <3>2. QED
      BY <2>1, <2>2, <3>1, UpTo
  <2>4. QED
    BY <2>3 DEF S
<1> DEFINE d == down[Len(q)]
           e == insert(t, q)
<1> HIDE DEF d
<1>3. e = [d.trie EXCEPT ![d.path].pattern = q]
  BY <1>1 DEF d
<1>4. Tree(d.trie) /\ d.path \in DOMAIN d.trie /\ d.path \in Seq(Parts) /\ Len(d.path) = Len(q)
  BY <1>2 DEF d, Walked, Tree
<1> HIDE DEF e
<1>5. /\ DOMAIN e = DOMAIN d.trie
      /\ \A v \in DOMAIN e : /\ e[v].children = d.trie[v].children /\ e[v] \in NodeRecords
                             /\ e[v].pattern = IF v = d.path THEN q ELSE d.trie[v].pattern
  <2>1. DOMAIN e = DOMAIN d.trie /\ \A v \in DOMAIN d.trie : d.trie[v] \in NodeRecords
    BY <1>3, <1>4 DEF Tree
  <2>2. \A v \in DOMAIN e : v # d.path => e[v] = d.trie[v]
    BY <1>3, <2>1
  <2>3. e[d.path] = [d.trie[d.path] EXCEPT !.pattern = q]
    BY <1>3, <1>4
  <2>4. e[d.path].children = d.trie[d.path].children /\ e[d.path].pattern = q /\ e[d.path] \in NodeRecords
    BY <1>4, <2>1, <2>3 DEF NodeRecords
  <2>5. QED
    BY <2>1, <2>2, <2>4
<1>6. Tree(e)
  <2>1. ASSUME NEW v \in DOMAIN e
        PROVE  Kids(e, v)
    <3>1. Kids(d.trie, v) /\ e[v].children = d.trie[v].children
      BY <1>4, <1>5 DEF Tree
    <3>2. QED
      BY <1>5, <3>1 DEF Kids
  <2>2. e = [v \in DOMAIN e |-> e[v]]
    BY <1>3
  <2>3. e \in [DOMAIN e -> NodeRecords]
    BY <1>5, <2>2
  <2>4. QED
    BY <1>4, <1>5, <2>1, <2>3 DEF Tree
<1>7. ASSUME Unhindered(t, q)
      PROVE  /\ DOMAIN e = DOMAIN t \cup {v \in Seq(Parts) : Begins(v, q)}
             /\ \A v \in DOMAIN e : e[v].pattern = IF v = q THEN q
                                                  ELSE IF v \in DOMAIN t THEN t[v].pattern
                                                  ELSE NoRoute
  <2>1. /\ Begins(d.path, q)
        /\ DOMAIN d.trie = DOMAIN t \cup {v \in Seq(Parts) : Begins(v, q) /\ Len(v) <= Len(q)}
        /\ \A v \in DOMAIN d.trie :
              d.trie[v].pattern = IF v \in DOMAIN t THEN t[v].pattern ELSE NoRoute
    BY <1>2, <1>7 DEF d, Walked
  <2>2. d.path = q
    BY <1>4, <2>1, BeginsAll
  <2>3. \A v \in Seq(Parts) : Begins(v, q) => Len(v) <= Len(q)
    BY DEF Begins
  <2>4. QED
    BY <1>5, <2>1, <2>2, <2>3
<1>8. QED
  BY <1>6, <1>7 DEF e

\* The hypothesis of Dispatch.
Ordered(r) == \A i, j \in DOMAIN r : i < j => ~Shadowed(r[i], r[j])

\* The trie is the routes and what they begin with.
Exact(t, r) ==
    /\ DOMAIN t = {<<>>} \cup {v \in Seq(Parts) : \E i \in DOMAIN r : Begins(v, r[i])}
    /\ \A v \in DOMAIN t :
           t[v].pattern = IF \E i \in DOMAIN r : v = r[i] THEN v ELSE NoRoute

\* The inductive invariant: the trie is a tree whatever was registered, and as
\* long as no route was shadowed it is exactly the routes.
RouteInv ==
    /\ routes \in Seq(Seq(Parts)) /\ \A i \in DOMAIN routes : Clean(routes[i])
    /\ Tree(trie)
    /\ Ordered(routes) => Exact(trie, routes)

LEMMA InitRoute == RouteInit => RouteInv
<1> SUFFICES ASSUME RouteInit PROVE RouteInv
  OBVIOUS
<1>1. /\ DOMAIN trie = {<<>>} /\ trie[<<>>] = Node
      /\ trie \in [{<<>>} -> {Node}]
      /\ routes = <<>> /\ DOMAIN routes = {}
  BY DEF RouteInit
<1>2. Node.pattern = NoRoute /\ Node.children = <<>> /\ DOMAIN Node.children = {}
  BY DEF Node
<1>3. Tree(trie)
  <2>1. <<>> \in Seq(Parts)
    OBVIOUS
  <2>2. Node \in NodeRecords
    BY <2>1 DEF Node, NodeRecords
  <2>3. \A v \in Seq(Parts), c \in Parts : Append(v, c) # <<>>
    BY AppendProperties
  <2>4. Kids(trie, <<>>)
    BY <1>1, <1>2, <2>1, <2>3 DEF Kids
  <2>5. QED
    BY <1>1, <2>1, <2>2, <2>3, <2>4 DEF Tree
<1>4. routes \in Seq(Seq(Parts))
  BY <1>1
<1>5. Exact(trie, routes)
  BY <1>1, <1>2 DEF Exact
<1>6. QED
  BY <1>1, <1>3, <1>4, <1>5 DEF RouteInv

\* Where the order of the routes is kept, nothing is in the way of the next.
LEMMA OrderedClear ==
  ASSUME NEW t, NEW r \in Seq(Seq(Parts)), Exact(t, r), NEW q \in Seq(Parts),
         \A i \in DOMAIN r : ~Shadowed(r[i], q)
  PROVE  Unhindered(t, q)
<1> SUFFICES ASSUME NEW v \in Seq(Parts), NEW c \in Wild, Begins(v, q), Len(v) < Len(q),
                    Append(v, c) \in DOMAIN t
             PROVE  c = q[Len(v) + 1]
  BY DEF Unhindered
<1>1. c \in Parts
  BY DEF Parts
<1>2. Append(v, c) # <<>>
  BY <1>1, AppendProperties
<1>3. PICK i \in DOMAIN r : Begins(Append(v, c), r[i])
  BY <1>2 DEF Exact
<1> DEFINE p == r[i]
<1>4. p \in Seq(Parts)
  OBVIOUS
<1> HIDE DEF p
<1>5. Begins(v, p) /\ Len(v) < Len(p) /\ p[Len(v) + 1] = c
  BY <1>1, <1>3, <1>4, BeginsNext DEF p
<1> DEFINE k == Len(v) + 1
<1>6. k \in DOMAIN p \cap DOMAIN q /\ k - 1 = Len(v)
  BY <1>4, <1>5
<1>7. SubSeq(p, 1, k - 1) = SubSeq(q, 1, k - 1)
  BY <1>4, <1>5, <1>6, BeginsSub
<1>8. ~Shadowed(p, q)
  BY DEF p
<1> HIDE DEF k
<1>9. p[k] = q[k]
  BY <1>5, <1>6, <1>7, <1>8 DEF Shadowed, k
<1>10. QED
  BY <1>5, <1>9 DEF k

\* A route more keeps the trie exact.
LEMMA ExactOn ==
  ASSUME NEW t, Tree(t), NEW r \in Seq(Seq(Parts)), Exact(t, r), NEW q \in Seq(Parts),
         Unhindered(t, q)
  PROVE  Exact(insert(t, q), Append(r, q))
<1> DEFINE e == insert(t, q)
           s == Append(r, q)
<1>1. /\ DOMAIN e = DOMAIN t \cup {v \in Seq(Parts) : Begins(v, q)}
      /\ \A v \in DOMAIN e : e[v].pattern = IF v = q THEN q
                                           ELSE IF v \in DOMAIN t THEN t[v].pattern
                                           ELSE NoRoute
  BY InsertIs
<1>2. /\ DOMAIN s = DOMAIN r \cup {Len(r) + 1} /\ s[Len(r) + 1] = q
      /\ \A i \in DOMAIN r : s[i] = r[i]
  <2>1. /\ s \in Seq(Seq(Parts)) /\ Len(s) = Len(r) + 1 /\ s[Len(r) + 1] = q
        /\ \A i \in 1..Len(r) : s[i] = r[i]
    BY Longer
  <2> HIDE DEF s
  <2>2. DOMAIN s = 1..Len(r) + 1 /\ DOMAIN r = 1..Len(r) /\ Len(r) \in Nat
    BY <2>1
  <2>3. QED
    BY <2>1, <2>2
<1> HIDE DEF e, s
<1>3. \A v : (\E i \in DOMAIN s : Begins(v, s[i])) <=> (\E i \in DOMAIN r : Begins(v, r[i])) \/ Begins(v, q)
  BY <1>2
<1>4. \A v : (\E i \in DOMAIN s : v = s[i]) <=> (\E i \in DOMAIN r : v = r[i]) \/ v = q
  BY <1>2
<1>5. DOMAIN e = {<<>>} \cup {v \in Seq(Parts) : \E i \in DOMAIN s : Begins(v, s[i])}
  BY <1>1, <1>3 DEF Exact
<1>6. ASSUME NEW v \in DOMAIN e
      PROVE  e[v].pattern = IF \E i \in DOMAIN s : v = s[i] THEN v ELSE NoRoute
  <2>1. v \notin DOMAIN t => ~ \E i \in DOMAIN r : v = r[i]
    <3>1. \A i \in DOMAIN r : r[i] \in Seq(Parts) /\ Begins(r[i], r[i])
      BY DEF Begins
    <3>2. QED
      BY <3>1 DEF Exact
  <2>2. v \in DOMAIN t => t[v].pattern = IF \E i \in DOMAIN r : v = r[i] THEN v ELSE NoRoute
    BY DEF Exact
  <2>3. e[v].pattern = IF v = q THEN q ELSE IF v \in DOMAIN t THEN t[v].pattern ELSE NoRoute
    BY <1>1
  <2>4. QED
    BY <1>4, <2>1, <2>2, <2>3
<1>7. Exact(e, s)
  BY <1>5, <1>6 DEF Exact
<1>8. QED
  BY <1>7 DEF e, s

LEMMA NextRoute == RouteInv /\ [RouteNext]_routeVars => RouteInv'
<1> SUFFICES ASSUME RouteInv, [RouteNext]_routeVars PROVE RouteInv'
  OBVIOUS
<1>1. ASSUME NEW p \in Patterns, addRoute(p)
      PROVE  RouteInv'
  <2> DEFINE q == parsePattern(p)
  <2>1. q \in Seq(Parts) /\ Clean(q)
    BY RouteAssumption, ParseIs
  <2> HIDE DEF q
  <2>2. trie' = insert(trie, q) /\ routes' = Append(routes, q)
    BY <1>1 DEF addRoute, q
  <2>3. routes \in Seq(Seq(Parts)) /\ Tree(trie) /\ \A i \in DOMAIN routes : Clean(routes[i])
    BY DEF RouteInv
  <2>4. /\ routes' \in Seq(Seq(Parts)) /\ Len(routes') = Len(routes) + 1
        /\ \A i \in 1..Len(routes) : routes'[i] = routes[i]
        /\ routes'[Len(routes) + 1] = q
    BY <2>1, <2>2, <2>3, Longer
  <2>5. DOMAIN routes = 1..Len(routes) /\ DOMAIN routes' = 1..Len(routes) + 1 /\ Len(routes) \in Nat
    BY <2>3, <2>4
  <2>6. ASSUME NEW i \in DOMAIN routes'
        PROVE  Clean(routes'[i])
    <3>1. i \in 1..Len(routes) \/ i = Len(routes) + 1
      BY <2>5
    <3>2. QED
      BY <2>1, <2>3, <2>4, <2>5, <3>1
  <2>7. Tree(trie')
    BY <2>1, <2>2, <2>3, InsertIs
  <2>8. ASSUME Ordered(routes')
        PROVE  Exact(trie', routes')
    <3>1. Ordered(routes)
      BY <2>4, <2>5, <2>8 DEF Ordered
    <3>2. ASSUME NEW i \in DOMAIN routes
          PROVE  ~Shadowed(routes[i], q)
      <4>1. /\ i \in DOMAIN routes' /\ Len(routes) + 1 \in DOMAIN routes'
            /\ i < Len(routes) + 1 /\ routes'[i] = routes[i]
        BY <2>4, <2>5
      <4>2. ~Shadowed(routes'[i], routes'[Len(routes) + 1])
        BY <2>8, <4>1 DEF Ordered
      <4>3. QED
        BY <2>4, <4>1, <4>2
    <3>3. Exact(trie, routes)
      BY <3>1 DEF RouteInv
    <3>4. Unhindered(trie, q)
      BY <2>1, <2>3, <3>2, <3>3, OrderedClear
    <3>5. QED
      BY <2>1, <2>2, <2>3, <3>3, <3>4, ExactOn
  <2>9. QED
    BY <2>4, <2>6, <2>7, <2>8 DEF RouteInv
<1>2. CASE UNCHANGED routeVars
  BY <1>2 DEF routeVars, RouteInv
<1>3. QED
  BY <1>1, <1>2 DEF RouteNext

\* The trie of insert is a tree, its wildcards the last of their siblings, and
\* holds just the routes when the exact ones were registered first.
THEOREM RouteInvariant == RouteSpec => []RouteInv
  BY InitRoute, NextRoute, PTL DEF RouteSpec

\* The parts on the way to a node match those of the request.
Along(v, parts) == \A i \in 1..Len(v) : v[i] = parts[i] \/ v[i] \in Wild

\* The routes at or below a node that match.
Below(r, parts, v) == {p \in Range(r) : Matches(p, parts) /\ Begins(v, p)}

\* The right answer among them.
Right(all, parts, x) ==
    IF all = {} THEN x = NoRoute
    ELSE x \in all /\ \A q \in all \ {x} : MoreExact(x, q, parts)

LEMMA BelowType ==
  ASSUME NEW r \in Seq(Seq(Parts)), NEW parts, NEW v, NEW p \in Below(r, parts, v)
  PROVE  /\ p \in Seq(Parts) /\ p # NoRoute /\ \E i \in DOMAIN r : p = r[i]
         /\ Matches(p, parts) /\ Begins(v, p)
<1>1. Matches(p, parts) /\ Begins(v, p) /\ p \in Range(r)
  BY DEF Below
<1>2. PICK i \in DOMAIN r : p = r[i]
  BY <1>1 DEF Range
<1>3. p \in Seq(Parts)
  BY <1>2
<1>4. QED
  BY <1>1, <1>2, <1>3, RouteAssumption

\* Where search ends, only the route of the node itself is left.
LEMMA EndRight ==
  ASSUME NEW t, Tree(t), NEW r \in Seq(Seq(Parts)), Exact(t, r),
         \A i \in DOMAIN r : Clean(r[i]),
         NEW parts \in Seq(Parts), NEW v \in Reach(t, parts), Along(v, parts), Stops(parts, v)
  PROVE  Right(Below(r, parts, v), parts, t[v].pattern)
<1>1. v \in DOMAIN t /\ v \in Seq(Parts) /\ Len(v) <= Len(parts)
  BY DEF Reach, Tree
<1>2. ASSUME NEW p \in Below(r, parts, v)
      PROVE  p = v
  <2>1. p \in Seq(Parts) /\ Matches(p, parts) /\ Begins(v, p) /\ Clean(p)
    BY BelowType
  <2>2. Len(p) <= Len(parts) /\ Len(v) <= Len(p) /\ Len(p) \in Nat /\ Len(v) \in Nat
    BY <1>1, <2>1 DEF Matches, Begins
  <2>3. Len(v) = Len(p)
    <3>1. CASE Len(v) = Len(parts)
      BY <2>2, <3>1
    <3>2. CASE v # <<>> /\ Last(v) \in Star
      <4>1. Len(v) \in 1..Len(v) /\ v[Len(v)] \in Star
        BY <1>1, <3>2 DEF Last
      <4>2. p[Len(v)] \in Star /\ Len(v) \in 1..Len(p)
        BY <2>1, <2>2, <4>1 DEF Begins
      <4>3. QED
        BY <2>1, <4>2 DEF Clean
    <3>3. QED
      BY <3>1, <3>2 DEF Stops
  <2>4. QED
    BY <1>1, <2>1, <2>3, BeginsAll
<1>3. CASE \E i \in DOMAIN r : v = r[i]
  <2>1. t[v].pattern = v
    BY <1>1, <1>3 DEF Exact
  <2>2. Matches(v, parts)
    <3>1. DOMAIN v = 1..Len(v)
      BY <1>1
    <3>2. QED
      BY <1>1, <3>1 DEF Matches, Along, Stops
  <2>3. Begins(v, v) /\ v \in Range(r)
    BY <1>1, <1>3 DEF Begins, Range
  <2>4. Below(r, parts, v) = {v}
    BY <1>2, <2>2, <2>3 DEF Below
  <2>5. QED
    BY <2>1, <2>4 DEF Right
<1>4. CASE ~ \E i \in DOMAIN r : v = r[i]
  <2>1. t[v].pattern = NoRoute
    BY <1>1, <1>4 DEF Exact
  <2>2. Below(r, parts, v) = {}
    BY <1>2, <1>4, BelowType
  <2>3. QED
    BY <2>1, <2>2 DEF Right
<1>5. QED
  BY <1>3, <1>4

\* Anywhere else the matching routes are those below the children that match.
LEMMA BelowChildren ==
  ASSUME NEW t, Tree(t), NEW r \in Seq(Seq(Parts)), Exact(t, r),
         NEW parts \in Seq(Parts), NEW v \in Reach(t, parts), ~Stops(parts, v),
         NEW p \in Below(r, parts, v)
  PROVE  \E i \in matchChildren(t, v, parts[Len(v) + 1]) :
             p \in Below(r, parts, Append(v, t[v].children[i]))
<1>1. v \in DOMAIN t /\ v \in Seq(Parts) /\ Len(v) < Len(parts) /\ Len(v) \in Nat
  BY DEF Reach, Tree, Stops
<1>2. /\ p \in Seq(Parts) /\ Matches(p, parts) /\ Begins(v, p)
      /\ p \in Range(r) /\ \E i \in DOMAIN r : p = r[i]
  BY BelowType DEF Below
<1>3. Len(v) < Len(p)
  <2>1. Len(v) <= Len(p) /\ Len(p) \in Nat
    BY <1>2 DEF Begins
  <2>2. SUFFICES ASSUME Len(v) = Len(p) PROVE FALSE
    BY <1>1, <2>1
  <2>3. v = p
    BY <1>1, <1>2, <2>2, BeginsAll
  <2>4. QED
    BY <1>1, <1>2, <2>3 DEF Matches, Stops
<1> DEFINE c == p[Len(v) + 1]
<1>4. Len(v) + 1 \in DOMAIN p /\ c \in Parts
  BY <1>1, <1>2, <1>3
<1>5. c \in Wild \cup {parts[Len(v) + 1]}
  BY <1>2, <1>4 DEF Matches
<1> HIDE DEF c
<1>6. Begins(Append(v, c), p)
  BY <1>1, <1>2, <1>3, <1>4, BeginsNext DEF c
<1>7. Append(v, c) \in DOMAIN t
  <2>1. Append(v, c) \in Seq(Parts)
    BY <1>1, <1>4, Longer
  <2>2. QED
    BY <1>2, <1>6, <2>1 DEF Exact
<1>8. PICK i \in DOMAIN t[v].children : t[v].children[i] = c
  BY <1>1, <1>4, <1>7 DEF Tree, Kids
<1>9. i \in matchChildren(t, v, parts[Len(v) + 1])
  BY <1>5, <1>8 DEF matchChildren
<1>10. p \in Below(r, parts, Append(v, t[v].children[i]))
  BY <1>2, <1>6, <1>8 DEF Below
<1>11. QED
  BY <1>9, <1>10

\* A child that comes before another that matches has the part for itself.
LEMMA FirstExact ==
  ASSUME NEW t, Tree(t), NEW r \in Seq(Seq(Parts)), NEW parts \in Seq(Parts),
         NEW v \in Reach(t, parts),
         NEW i \in matchChildren(t, v, parts[Len(v) + 1]),
         NEW j \in matchChildren(t, v, parts[Len(v) + 1]), i < j,
         NEW p \in Below(r, parts, Append(v, t[v].children[i])),
         NEW q \in Below(r, parts, Append(v, t[v].children[j]))
  PROVE  MoreExact(p, q, parts)
<1> DEFINE c == t[v].children[i]
           d == t[v].children[j]
           k == Len(v) + 1
<1>1. v \in DOMAIN t
  BY DEF Reach
<1>2. /\ v \in Seq(Parts) /\ c \in Parts /\ d \in Parts
      /\ c \in Wild \cup {parts[k]} /\ d \in Wild \cup {parts[k]}
      /\ i \in DOMAIN t[v].children /\ j \in DOMAIN t[v].children
  BY <1>1, MatchIs
<1>3. c \notin Wild /\ c # d
  BY <1>1, <1>2 DEF Tree, Kids
<1>4. c = parts[k] /\ d \in Wild
  BY <1>2, <1>3
<1>5. p \in Seq(Parts) /\ q \in Seq(Parts) /\ Begins(Append(v, c), p) /\ Begins(Append(v, d), q)
  BY BelowType
<1> HIDE DEF c, d
<1>6. /\ Begins(v, p) /\ Len(v) < Len(p) /\ p[k] = c
      /\ Begins(v, q) /\ Len(v) < Len(q) /\ q[k] = d
  BY <1>2, <1>5, BeginsNext
<1>7. SubSeq(p, 1, Len(v)) = SubSeq(q, 1, Len(v))
  BY <1>2, <1>5, <1>6, BeginsSub
<1>8. k \in DOMAIN p \cap DOMAIN q /\ k - 1 = Len(v)
  BY <1>2, <1>5, <1>6
<1> HIDE DEF k
<1>9. QED
  BY <1>3, <1>4, <1>6, <1>7, <1>8 DEF MoreExact

\* The answer at a node is right when those one further down are.
LEMMA AnswerRight ==
  ASSUME NEW t, Tree(t), NEW r \in Seq(Seq(Parts)), Exact(t, r),
         \A i \in DOMAIN r : Clean(r[i]),
         NEW parts \in Seq(Parts), NEW v \in Reach(t, parts), Along(v, parts), NEW b,
         \A u \in Reach(t, parts) :
             Len(u) = Len(v) + 1 /\ Along(u, parts) => Right(Below(r, parts, u), parts, b[u])
  PROVE  Right(Below(r, parts, v), parts, Answer(t, parts, b, v))
<1>1. CASE Stops(parts, v)
  BY <1>1, EndRight DEF Answer
<1>2. CASE ~Stops(parts, v)
  <2> DEFINE M == matchChildren(t, v, parts[Len(v) + 1])
             U(i) == Append(v, t[v].children[i])
             A == Answers(t, parts, b, v)
             hits == {i \in DOMAIN A : A[i] # NoRoute}
             all == Below(r, parts, v)
  <2>1. v \in DOMAIN t /\ v \in Seq(Parts) /\ Len(v) < Len(parts) /\ Len(v) \in Nat
    BY <1>2 DEF Reach, Tree, Stops
  <2>2. Answer(t, parts, b, v) = IF hits = {} THEN NoRoute ELSE A[Min(hits)]
    BY <1>2 DEF Answer, FirstOf
  <2>3. DOMAIN A = M /\ \A i \in M : A[i] = b[U(i)]
    BY DEF Answers
  <2>4. ASSUME NEW i \in M
        PROVE  Right(Below(r, parts, U(i)), parts, A[i])
    <3>1. /\ U(i) \in DOMAIN t /\ Len(U(i)) = Len(v) + 1
          /\ t[v].children[i] \in Parts
          /\ t[v].children[i] \in Wild \cup {parts[Len(v) + 1]}
      BY <2>1, MatchIs
    <3>2. U(i) \in Reach(t, parts)
      BY <2>1, <3>1 DEF Reach
    <3>3. Along(U(i), parts)
      <4>1. /\ \A j \in 1..Len(v) : U(i)[j] = v[j]
            /\ U(i)[Len(v) + 1] = t[v].children[i]
        BY <2>1, <3>1, Longer
      <4>2. \A j \in 1..Len(v) + 1 : j \in 1..Len(v) \/ j = Len(v) + 1
        BY <2>1
      <4> HIDE DEF U
      <4>3. QED
        BY <3>1, <4>1, <4>2 DEF Along
    <3>4. QED
      BY <2>3, <3>1, <3>2, <3>3
  <2>5. \A i \in M : Below(r, parts, U(i)) \subseteq all
    <3>1. SUFFICES ASSUME NEW i \in M, NEW p \in Below(r, parts, U(i)) PROVE p \in all
      OBVIOUS
    <3>2. t[v].children[i] \in Parts
      BY <2>1, MatchIs
    <3>3. p \in Seq(Parts) /\ Begins(v, p)
      BY <2>1, <3>2, BelowType, BeginsNext
    <3>4. QED
      BY <3>3 DEF Below
  <2>6. \A p \in all : \E i \in M : p \in Below(r, parts, U(i))
    BY <1>2, BelowChildren
  <2>7. \A p \in all : p # NoRoute
    BY BelowType
  <2> HIDE DEF M, U, A, all
  <2>8. \A i \in M : A[i] # NoRoute <=> Below(r, parts, U(i)) # {}
    BY <2>4, <2>5, <2>7 DEF Right
  <2>9. CASE hits = {}
    <3>1. all = {}
      BY <2>3, <2>6, <2>8, <2>9
    <3>2. QED
      BY <2>2, <2>9, <3>1 DEF Right, all
  <2>10. CASE hits # {}
    <3> DEFINE i == Min(hits)
    <3>1. i \in hits /\ \A j \in hits : i <= j
      <4>1. hits \subseteq Nat
        BY <2>1, <2>3, MatchNat DEF M
      <4> HIDE DEF hits
      <4>2. QED
        BY <2>10, <4>1, MinIs
    <3> HIDE DEF i
    <3>2. i \in M /\ A[i] # NoRoute /\ \A j \in M : A[j] # NoRoute => i <= j
      BY <2>3, <3>1
    <3>3. A[i] \in Below(r, parts, U(i)) /\ A[i] \in all
      BY <2>4, <2>5, <3>2 DEF Right
    <3>4. ASSUME NEW q \in all, q # A[i]
          PROVE  MoreExact(A[i], q, parts)
      <4>1. PICK j \in M : q \in Below(r, parts, U(j))
        BY <2>6
      <4>2. i <= j
        BY <2>8, <3>2, <4>1
      <4>3. CASE i = j
        BY <2>4, <3>2, <3>4, <4>1, <4>3 DEF Right
      <4>4. CASE i # j
        <5>1. i < j
          <6>1. i \in Nat /\ j \in Nat
            BY <2>1, <3>2, MatchNat DEF M
          <6>2. QED
            BY <4>2, <4>4, <6>1
        <5>2. QED
          BY <3>2, <3>3, <4>1, <5>1, FirstExact DEF M, U
      <4>5. QED
        BY <4>3, <4>4
    <3>5. Answer(t, parts, b, v) = A[i]
      BY <2>2, <2>10 DEF i
    <3>6. Right(all, parts, A[i])
      BY <3>3, <3>4 DEF Right
    <3>7. QED
      BY <3>5, <3>6 DEF all
  <2>11. QED
    BY <2>9, <2>10
<1>3. QED
  BY <1>1, <1>2

\* From the nodes of the length of the request up to the root.
LEMMA SearchRight ==
  ASSUME NEW t, Tree(t), NEW r \in Seq(Seq(Parts)), Exact(t, r),
         \A i \in DOMAIN r : Clean(r[i]), NEW parts \in Seq(Parts)
  PROVE  Right({p \in Range(r) : Matches(p, parts)}, parts, search(t, parts))
<1>1. PICK b : /\ search(t, parts) = b[<<>>]
               /\ \A v \in Reach(t, parts) : b[v] = Answer(t, parts, b, v)
  BY SearchWalk
<1> DEFINE Good(v) == Right(Below(r, parts, v), parts, b[v])
           S == {m \in 0..Len(parts) :
                    \A v \in Reach(t, parts) :
                        Len(v) = Len(parts) - m /\ Along(v, parts) => Good(v)}
<1>2. \A v \in Reach(t, parts) : Len(v) \in 0..Len(parts)
  BY DEF Reach, Tree
<1>3. ASSUME NEW v \in Reach(t, parts), Along(v, parts),
             \A u \in Reach(t, parts) : Len(u) = Len(v) + 1 /\ Along(u, parts) => Good(u)
      PROVE  Good(v)
  BY <1>1, <1>3, AnswerRight
<1> HIDE DEF Good
<1>4. 0 \in S
  <2>1. ASSUME NEW v \in Reach(t, parts), Len(v) = Len(parts), Along(v, parts)
        PROVE  Good(v)
    <3>1. \A u \in Reach(t, parts) : Len(u) # Len(v) + 1
      BY <1>2, <2>1
    <3>2. QED
      BY <1>3, <2>1, <3>1
  <2>2. QED
    BY <2>1
<1>5. ASSUME NEW m \in 1..Len(parts), m - 1 \in S
      PROVE  m \in S
  <2>1. ASSUME NEW v \in Reach(t, parts), Len(v) = Len(parts) - m, Along(v, parts)
        PROVE  Good(v)
    <3>1. Len(v) + 1 = Len(parts) - (m - 1)
      BY <2>1
    <3>2. \A u \in Reach(t, parts) : Len(u) = Len(v) + 1 /\ Along(u, parts) => Good(u)
      BY <1>5, <3>1
    <3>3. QED
      BY <1>3, <2>1, <3>2
  <2>2. QED
    BY <2>1
<1>6. Len(parts) \in S
  <2> HIDE DEF S
  <2>1. Len(parts) \in Nat
    OBVIOUS
  <2>2. \A m \in 0..Len(parts) : m \in S
    BY <1>4, <1>5, <2>1, UpTo
  <2>3. QED
    BY <2>1, <2>2
<1>7. <<>> \in Reach(t, parts) /\ Len(<<>>) = Len(parts) - Len(parts) /\ Along(<<>>, parts)
  BY DEF Reach, Tree, Along
<1>8. Good(<<>>)
  BY <1>6, <1>7
<1>9. Below(r, parts, <<>>) = {p \in Range(r) : Matches(p, parts)}
  <2>1. \A p \in Range(r) : Begins(<<>>, p)
    <3>1. \A p \in Range(r) : p \in Seq(Parts)
      BY DEF Range
    <3>2. QED
      BY <3>1 DEF Begins
  <2>2. QED
    BY <2>1 DEF Below
<1>10. QED
  BY <1>1, <1>8, <1>9 DEF Good

\* search answers every request with the most exact route that matches it, and
\* with none only if none does, whatever the trie's depth and width.
THEOREM DispatchHolds == RouteSpec => []Dispatch
<1>1. RouteInv => Dispatch
  <2>1. SUFFICES ASSUME RouteInv, Ordered(routes), NEW request \in Requests
                 PROVE  LET path == parsePattern(request)
                            all == {p \in Range(routes) : Matches(p, path)}
                            found == getRoute(request)
                        IN  IF all = {} THEN found = NoRoute
                            ELSE /\ found \in all
                                 /\ \A q \in all \ {found} : MoreExact(found, q, path)
    BY DEF Dispatch, Ordered
  <2> DEFINE path == parsePattern(request)
  <2>2. path \in Seq(Parts)
    BY RouteAssumption, ParseIs
  <2>3. /\ Tree(trie) /\ routes \in Seq(Seq(Parts)) /\ Exact(trie, routes)
        /\ \A i \in DOMAIN routes : Clean(routes[i])
    BY <2>1 DEF RouteInv
  <2>4. Right({p \in Range(routes) : Matches(p, path)}, path, search(trie, path))
    <3> HIDE DEF path
    <3>1. QED
      BY <2>2, <2>3, SearchRight
  <2>5. QED
    BY <2>4 DEF Right, getRoute
<1>2. QED
  BY <1>1, RouteInvariant, PTL
==============================================================================
