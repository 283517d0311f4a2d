\* LRU: keys and values of several lengths, one larger than the limit of 7.
\* Ring: three nodes with two virtual nodes on three hashes, so that they can
\* collide and wrap around, and two peers.
\* Router: three routes in any order, of up to two parts and four longer ones.
\* Chain: up to five handlers that call Next up to twice.
\* Orm: an old table has any of three columns, of which the new schema has two.
SPECIFICATION MCSpec
CONSTANTS
    n1 = n1  n2 = n2  n3 = n3
    Keys = {"k1", "k2", "k3"}
    KeyLen <- KeyLens
    ValueLens = {0, 2, 6}
    Limits = {0, 7}
    Peers = {p1, p2}
    Nodes <- Nodes3
    RingKeys = {k}
    Replicas = {1, 2}
    Range32 = {0, 1, 2}
    NoNode = NoNode
    Static <- StaticParts
    Colon <- ColonParts
    Star <- StarParts
    Patterns <- SomePatterns
    Requests <- AllRequests
    MaxRoutes = 3
    NoRoute = NoRoute
    MaxHandlers = 5
    MaxNext = 2
    Cols = {"Name", "Age", "Score"}
    Fields = {"Name", "Age"}
    Rows = {r1}
    Chained = {"WHERE", "LIMIT"}
INVARIANTS
    BytesCounted
    PeersAgree
    Dispatch
    EachOnce
    OwnStatement
PROPERTIES
    EvictsOldest
    OnlyToNewNode
    AllOrNothing
CHECK_DEADLOCK FALSE
