SPECIFICATION Spec
CONSTANTS
    Client = {c1}
    Pipelining = c1
    call = call
    quick = quick
    notice = notice
    broken = broken
    partial = partial
    fatal = fatal
    Request = {call}
    Shape <- MCShape
    Outcome <- MCOutcome
    NoReply = NoReply
    Crash = Crash
    ErrorReply = ErrorReply
    InitialSize = 16
    SockCap = 1
    Window = 2
    MaxMsgs = 2
INVARIANT
    NothingLost
CHECK_DEADLOCK FALSE
