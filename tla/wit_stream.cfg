SPECIFICATION Spec
CONSTANTS
    WIT_DATA_BUFF_SIZE = 16
    REGSIZE = 144
    Protocols <- MCProtocols
    Reads <- MCReads
    Settings <- MCSettings
    Registered = {"can"}
    Outputs = {81, 82}
    Noise = {85, 14}
    MaxCalls = 3
    MaxFrames = 1
    MaxFaults = 1
    I2cResults <- MCI2cResults
INVARIANTS
    TypeOK
    FramesFound
    AnswersTaken
    RegistersTrue
    DataUpToDate
CHECK_DEADLOCK FALSE
