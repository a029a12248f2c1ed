SPECIFICATION Spec
CONSTANTS
    HalfWord = 8
    MaxAbs = 1
    MinRate = 1
    MaxRate = 2
    DefaultRate = 1
    Quarter = 4
    SteerAngle = 1
    SteerRate = 2
    Steers <- MCSteers
    Bases = {3}
    Priors = {}
    NetCap = 3
    MaxSends = 4
PROPERTY CenterObeyed
CHECK_DEADLOCK FALSE
