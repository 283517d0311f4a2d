SPECIFICATION Spec
CONSTANTS
    h1 = h1  h2 = h2  r1 = r1  r2 = r2
    Hosts <- Hosts2  Targets <- Targets2  Requests <- Requests2
    Algorithms <- All  Word = 8  Turns = 2
    NoHost = NoHost
INVARIANTS MarksTrue LoadTrue
PROPERTIES LeastLoaded FollowsBackend
