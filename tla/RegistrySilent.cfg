\* Only this repository's programs: "GET" and "POST" are the only methods, and
\* no entry ever expires.
SPECIFICATION RegistrySpec
CONSTANTS
    Servers = {s1, s2}
    Users = {u1}
    Timeout = 0
    ListTimeout = 1
    Foreign = FALSE
    Absent = Absent
    Free = Free
PROPERTY
    RefreshLearns
CHECK_DEADLOCK FALSE
