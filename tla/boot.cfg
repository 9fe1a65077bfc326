CONSTANTS
    Tries = 1
    ScsiEnv = {"check", "disconnect", "slow", "nodisk", "fast", "drop"}
    Lerbuf = 2
    Day = 4
    Timeout = 2
    MaxOpens = 2
    Xmin = 5
    Xmax = 9
    Ymin = 1
    Ymax = 3
    Font <- MCFont
    RbufSize = 3
    SioFifo = 2
    Ahead = 2
    Modifiers = {"shift"}
    BootTimeout = 3
    SecsPerDay = 5
    Names <- MCNames
SPECIFICATION BootSpec
INVARIANTS BootTypeOK CheckIsReported BuffersInStep ScreenShowsText OpenMeansMounted
 
CHECK_DEADLOCK FALSE
