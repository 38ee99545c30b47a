SPECIFICATION Spec
CONSTANTS
    Motors = {0, 1, 2, 3, 4, 5}
    Frame <- MCFrame
    Thrusters <- MCThrusters
    Gains <- MCGains
    CtxData = "NULL"
    Values = {2}
    Measurements = {"roll", "pitch", "yaw", "depth"}
    Requests <- MCRequests
    MaxTicks = 1
    MaxChanges = 2
PROPERTY
    AxisUpdates
CHECK_DEADLOCK FALSE
