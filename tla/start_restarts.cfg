SPECIFICATION FairSpec
CONSTANTS
    LongMax = 1000
    Infinity = 50000
    NestingLimit = 5
    ExponentFrom = 2000
    Thrusters = 2
    IntHalf = 100
    Absent <- NoText
    Unset <- NoParams
    Params <- ThrusterParams
    Default <- DefaultParams
    NoneFails <- Never
    ReadThrusters <- ThrustersRead
    DefaultText <- DefaultWritten
    UserFiles <- MCUserFiles
    MaxAllocations = 50
    MaxCrashes = 1
    MaxFailures = 2
    MaxEdits = 1
INVARIANTS
    TypeOK
    WriterNeverServes
    ConfigSurvives
PROPERTIES
    UserFileKept
    ServesInTheEnd
CHECK_DEADLOCK FALSE
