SPECIFICATION Spec
CONSTANTS
    HalfWord = 8
    MaxAbs = 1
    MinRate = 1
    MaxRate = 2
    DefaultRate = 1
    Quarter = 4
    SteerAngle = 1
    SteerRate = 2
    Steers = {"STRAIGHT"}
    Bases = {3}
    Priors <- MCPriors
    NetCap = 3
    MaxSends = 5
INVARIANTS TypeOK NeverLockedOut
PROPERTY NoReplay
CHECK_DEADLOCK FALSE
