SPECIFICATION Spec
CONSTANTS
    Motors = {0, 1, 2, 3, 4, 5}
    Frame <- MCFrame
    Thrusters <- MCThrusters
    Gains <- MCGains
    CtxData = "input"
    Values = {0, 2}
    Measurements = {"roll", "pitch", "yaw", "depth"}
    Requests <- MCRequests
    MaxTicks = 3
    MaxChanges = 5
INVARIANTS
    TypeOK
    ThrustersFollow
PROPERTY
    EachAxisAlone
CHECK_DEADLOCK FALSE
