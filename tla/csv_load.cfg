SPECIFICATION FairSpec
CONSTANTS
    Comma = Comma
    EndOfLine = {LF}
    Digit = {d1, d2}
    Garbage = Garbage
    Files <- MCFiles
    MaxLen = 6
    BufferSize = 5
    ROW_MAX = 1
    COL_MAX = 1
INVARIANTS
    TypeOK
    WritesInTable
    ReportedInPlace
    AllReported
    WholeFieldsLoad
PROPERTY
    LoadEnds
CHECK_DEADLOCK FALSE
