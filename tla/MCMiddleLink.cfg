SPECIFICATION Spec
CONSTANTS
    HalfWord = 16
    MinPeriod = 1
    MaxPeriod = 2
    MaxLoss = 1
    MaxDelay = 2
    Timeout = 1
    RestartFloor = 4
INVARIANTS TypeOK OnlyNewerRefreshes RestartRecovers
