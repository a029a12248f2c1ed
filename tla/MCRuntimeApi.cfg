SPECIFICATION Spec
CONSTANTS
    HalfWord = 2
    MaxAbs = 1
    MinRate = 1
    MaxRate = 2
    DefaultRate = 1
    SteerAngle = 1
    SteerRate = 1
    Steers = {"STRAIGHT", "LEFT"}
    Drives = {"STOP"}
    Features = {"lkas", "acc"}
    Frames = {0, 1}
    Guard = 1
    WatchdogTurns = 0
    FrontTurns = 1
INVARIANTS TypeOK DisabledCenters HeardWithinHalfWord ModeReachesRear
