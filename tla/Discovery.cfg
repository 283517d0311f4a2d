\* Two servers, two goroutines of the discovery and two of the clients, three
\* connections.  An age of 2 is a timed-out entry, of 1 an outdated list.
SPECIFICATION MCSpec
CONSTANTS
    s1 = s1  s2 = s2  u1 = u1  u2 = u2  c1 = c1  c2 = c2  c3 = c3
    Servers <- Two
    Users <- Users2
    Timeout = 2
    ListTimeout = 1
    Foreign = TRUE
    Absent = Absent
    Free = Free
    Addrs <- Two
    Callers <- User1
    Conns <- Conns3
    TimeLimit = TRUE
    None = None
INVARIANTS
    AnswersLive
    RoundRobinFair
    NoLeak
    BroadcastTruth
PROPERTIES
    CallsEnd
CHECK_DEADLOCK FALSE
