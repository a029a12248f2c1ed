SPECIFICATION Spec
CONSTANTS
    HalfWord = 2
    FrontFrames <- MCFrontFrames
    MiddlePackets <- MCMiddlePackets
    FrontLimits <- MCFrontLimits
    PersonLimits <- MCPersonLimits
    SideLimits <- MCSideLimits
    FrontTimeout = 2
    MiddleTimeout = 2
    StopHold = 3
INVARIANT TypeOK
PROPERTIES HoldKept BrakeBacked
