\* A synchronous call with a deadline, and an asynchronous one of a method that
\* the server does not know.
SPECIFICATION ConnSpec
CONSTANTS
    SyncCalls = {c1}
    AsyncCalls = {a1}
    Deadline = {c1}
    DoneCap = 1
    Shared = Shared
    NoCall = NoCall
    Receiver = Receiver
    NoReply = NoReply
    Unknown = {a1}
    NoRequest = NoRequest
INVARIANTS Outstanding ToldTruth
PROPERTIES AnsweredOrOver
CHECK_DEADLOCK FALSE
