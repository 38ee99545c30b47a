SPECIFICATION FairSpec
CONSTANTS
    Client = {c1, c2}
    Pipelining = c1
    Request = {call, partial}
    call = call
    quick = quick
    notice = notice
    broken = broken
    partial = partial
    fatal = fatal
    Shape <- MCShape
    Outcome <- MCOutcome
    NoReply = NoReply
    Crash = Crash
    ErrorReply = ErrorReply
    InitialSize = 3
    SockCap = 1
    Window = 1
    MaxMsgs = 2
INVARIANT
    NothingLost
PROPERTIES
    ConnectionsEnd
    EachRequestSettled
CHECK_DEADLOCK FALSE
