SPECIFICATION Spec
CONSTANTS
    Name = {n1, n2}
    n1 = n1
    n2 = n2
    Function = {succeeds, fails, silent}
    succeeds = succeeds
    fails = fails
    silent = silent
    Behaviour <- MCBehaviour
    Arg = {a1, a2}
    NoArg = NoArg
    Id = {i1, i2}
    i1 = i1
    i2 = i2
    NullId = NullId
    NoId = NoId
    BadId = BadId
    NoMethod = NoMethod
    Dispatcher = Dispatcher
    Batches <- MCBatches
    Wild = Wild
    MaxAdds = 3
INVARIANTS
    TypeOK
    NothingMislaid
    ArgsFreedOnce
    CallsAnswered
SYMMETRY Symmetry
CHECK_DEADLOCK FALSE
