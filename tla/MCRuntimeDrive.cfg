SPECIFICATION Spec
CONSTANTS
    HalfWord = 2
    MaxAbs = 1
    MinRate = 1
    MaxRate = 2
    DefaultRate = 1
    SteerAngle = 1
    SteerRate = 1
    Steers = {"STRAIGHT", "LEFT"}
    Drives = {"STOP", "FORWARD"}
    Features = {"lkas", "acc", "aeb"}
    Frames = {0, 1, 2}
    Guard = 1
    WatchdogTurns = 1
    FrontTurns = 1
INVARIANT RearReadsWhatIsPacked
