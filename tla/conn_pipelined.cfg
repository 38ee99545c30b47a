SPECIFICATION Spec
CONSTANTS
    Client = {c1, c2}
    Pipelining = c1
    call = call
    quick = quick
    notice = notice
    broken = broken
    partial = partial
    fatal = fatal
    Request = {call, notice, broken, fatal}
    Shape <- MCShape
    Outcome <- MCOutcome
    NoReply = NoReply
    Crash = Crash
    ErrorReply = ErrorReply
    InitialSize = 3
    SockCap = 1
    Window = 3
    MaxMsgs = 3
INVARIANTS
    TypeOK
    ReadHasRoom
    ServedInOrder
    OnlyShiftsTear
    RepliesMatchRequests
    NoReplyForgotten
PROPERTY
    ImplementsChannel
CONSTRAINT
    OneBeside
CHECK_DEADLOCK FALSE
