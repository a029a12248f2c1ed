SPECIFICATION Spec
CONSTANTS
    DetectEvery = 3
    PersonStale = 4
    MinTurn = 1
    MaxTurn = 2
    MaxInfer = 1
    MaxLoss = 1
    MaxDelay = 1
    MiddleTimeout = 6
INVARIANTS TypeOK PersonForgotten PersonHeld
