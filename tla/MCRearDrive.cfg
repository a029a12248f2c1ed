SPECIFICATION DriveSpec
CONSTANTS
    VMax = 2
    AMax = 1
    Accels <- MCAccels
    IMax = 1
    UMax = 3
    BrakeOn = 2
    BrakeOff = 2
    VBrakeMin = 1
    Speeds <- MCSpeeds
    Drives = {"STOP", "FORWARD"}
    Others <- MCOthers
INVARIANTS DriveTypeOK NoResidue
PROPERTIES ControlSpec BrakeHeldUnderDemand UrgentBrakes EstopKept EstopBrakes StatusReturns
