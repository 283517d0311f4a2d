SPECIFICATION FairSpec
CONSTANTS
    r1 = r1  r2 = r2  r3 = r3
    Requests <- Requests3
    Unknown <- Unknown1
    NoRequest = NoRequest
CHECK_DEADLOCK FALSE
INVARIANTS OneResponse Framed Truthful QuietClose
PROPERTIES AcceptedAnswered ClosesAfterLoss
