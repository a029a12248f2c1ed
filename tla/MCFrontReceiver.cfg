SPECIFICATION Spec
CONSTANTS
    HalfWord = 8
    ClockWrap = 10
    WatchdogMs = 3
    MaxAbs = 2
    MinRate = 1
    MaxRate = 2
    DefaultRate = 1
    PulseMs = 1
    SenseMs = {1}
    HoldMs <- MCHold
    RxDescriptors = 2
    Packets <- MCPackets
    AgeCap = 13
INVARIANTS TypeOK SteeringAuthorised StalenessBound
PROPERTIES RateLimitedBetweenWraps TripMeansSilenceBetweenWraps
