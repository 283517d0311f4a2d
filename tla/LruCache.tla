------------------------------ MODULE LruCache ------------------------------
(***************************************************************************)
(* geeCache/lru/lru.go behind the mutex of geeCache/cache.go: each call of *)
(* cache.get and cache.put is one step, the evictions included.  The list  *)
(* ll and the map cache hold the same keys: the model has the list, most   *)
(* recent first, and the length of each value.                             *)
(***************************************************************************)
EXTENDS Integers, FiniteSets, Sequences, SequencesExt

CONSTANTS Keys,
          KeyLen,    \* the length of each key
          ValueLens, \* the lengths of values
          Limits     \* the values of cacheBytes; 0 is no limit

ASSUME LruAssumption ==
    KeyLen \in [Keys -> Nat] /\ ValueLens \subseteq Nat /\ Limits \subseteq Nat

VARIABLES lru,   \* what cache.lru points to, made at the first put
          used   \* the keys, the one that was got or put last first

lruVars == <<lru, used>>

NewCache(max) == [ll |-> <<>>, len |-> [k \in Keys |-> 0], nbytes |-> 0,
                  maxBytes |-> max]

LruInit == used = <<>> /\ \E max \in Limits : lru = NewCache(max)

\* MoveToFront of a key that is in the list, PushFront of another.
MoveToFront(s, k) ==
    IF k \in ToSet(s)
    THEN <<k>> \o RemoveAt(s, CHOOSE i \in 1..Len(s) : s[i] = k)
    ELSE <<k>> \o s

Holds(k) == k \in ToSet(lru.ll)

\* What the entries of some keys take of the cache c, byte by byte.
Space(c, keys) == UNION {{k} \X (1..(KeyLen[k] + c.len[k])) : k \in keys}
Bytes(c, keys) == Cardinality(Space(c, keys))

------------------------------------------------------------------------------
(* Slips that the properties at the end must catch.                        *)

StoreAdds(k, v) ==       \* the length of the old value is not taken off
    [lru EXCEPT !.ll = MoveToFront(@, k), !.len[k] = v,
                !.nbytes = @ + v + IF Holds(k) THEN 0 ELSE KeyLen[k]]
HitStays(k) == lru.ll    \* Get does not move the entry

------------------------------------------------------------------------------
\* The keys of the entries that RemoveOldest takes until i are left.
Oldest(c, i) == {c.ll[j] : j \in (i + 1)..Len(c.ll)}

RemoveOldest(c, i) ==
    [c EXCEPT !.ll = SubSeq(@, 1, i), !.nbytes = @ - Bytes(c, Oldest(c, i))]

Over(c) == c.maxBytes # 0 /\ c.nbytes > c.maxBytes

\* The loop at the end of Put goes on while the cache is over its limit; with
\* nothing left it would not end.
Trim(c) ==
    RemoveOldest(c, CHOOSE i \in 0..Len(c.ll) :
                       /\ i = 0 \/ ~Over(RemoveOldest(c, i))
                       /\ \A j \in (i + 1)..Len(c.ll) : Over(RemoveOldest(c, j)))

Store(k, v) ==
    [lru EXCEPT !.ll = MoveToFront(@, k), !.len[k] = v,
                !.nbytes = @ + v + IF Holds(k) THEN -lru.len[k] ELSE KeyLen[k]]

Hit(k) == MoveToFront(lru.ll, k)

CachePut(k, v) ==
    /\ lru' = Trim(Store(k, v))
    /\ used' = MoveToFront(used, k)

\* get before the first put finds no lru, and an absent key nothing.
CacheGet(k) ==
    /\ Holds(k)
    /\ lru' = [lru EXCEPT !.ll = Hit(k)]
    /\ used' = MoveToFront(used, k)

LruNext == \E k \in Keys : CacheGet(k) \/ \E v \in ValueLens : CachePut(k, v)

LruSpec == LruInit /\ [][LruNext]_lruVars

------------------------------------------------------------------------------
\* The counter is what the entries take, in every sequence of insertions,
\* updates with longer and shorter values, and evictions; so the limit holds
\* and the loop of Put ends.
BytesCounted ==
    /\ lru.nbytes = Bytes(lru, ToSet(lru.ll))
    /\ lru.maxBytes # 0 => lru.nbytes <= lru.maxBytes

Recent(i) == {used[j] : j \in 1..i}

\* The entries that stay are those used last, and the youngest of the evicted
\* entries had no room beside them.
ByLastUse ==
    /\ lru'.ll = SubSeq(used', 1, Len(lru'.ll))
    /\ \A i \in DOMAIN used' :
          /\ i = Len(lru'.ll) + 1
          /\ i = 1 \/ Holds(used'[i])
          => (lru.maxBytes # 0 /\ Bytes(lru, Recent(i)) > lru.maxBytes)'

\* Eviction is by last use, by get or by put, and takes no more than it must.
EvictsOldest == [][ByLastUse]_lruVars
=============================================================================
