SPECIFICATION FnEndsSpec
CONSTANTS
    c1 = c1  c2 = c2  c3 = c3  c4 = c4
    k1 = k1  k2 = k2  value = value  error = error
    Callers <- Callers3
    Keys <- Keys1
    Results <- Results2
    None = None
CHECK_DEADLOCK FALSE
PROPERTY WaiterReturns
