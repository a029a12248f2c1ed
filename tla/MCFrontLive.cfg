SPECIFICATION FairSpec
CONSTANTS
    HalfWord = 8
    ClockWrap = 10
    WatchdogMs = 3
    MaxAbs = 1
    MinRate = 1
    MaxRate = 2
    DefaultRate = 1
    PulseMs = 1
    SenseMs <- MCSense
    HoldMs <- MCHold
    RxDescriptors = 1
    Packets <- MCLive
    AgeCap = 13
PROPERTIES SilenceCenters TargetReached
